---- MODULE Spec2Model ----
(***************************************************************************)
(* SpeedyDb: the in-memory B-tree index (package btree), the segment       *)
(* writer and record codec (package btreeWriting) and the ingestion and    *)
(* flush driver (package main), as state machines.                         *)
(*                                                                         *)
(* Go slices are 0-based; sequences here are 1-based.  Every index that    *)
(* is named after a Go variable keeps its 0-based Go value and the access  *)
(* adds one (items[i+1] is Go's items[i]).                                 *)
(***************************************************************************)
EXTENDS Integers, Sequences, FiniteSets, TLC

\* ------------------------------------------------------------------------
\* Bounds of the model
\* ------------------------------------------------------------------------

\* btree.New(t) is called with t drawn from 1..MaxDegree.
MaxDegree == 3

\* The primary keys offered to Upsert in the Index specification.
IndexPKs == {5, 6, 7, 10, 12, 17, 20, 30}

\* The rows offered to Upsert in the Index specification: every key can be
\* upserted with row "r1", and three of them (one that ends up in a leaf,
\* one in an internal node, one in between) also with a different row "r2".
IndexRows(pk) == IF pk \in {6, 10, 17} THEN {"r1", "r2"} ELSE {"r1"}

\* The range ends offered to AscendRange(lo, hi): lo and hi below, at,
\* between and above the keys, and lo > hi.
RangeLos == {0, 7}
RangeHis == {6, 12, 100}

\* ------------------------------------------------------------------------
\* package btree: values
\* ------------------------------------------------------------------------

\* A nil Row (the Row of Go's zero Item).
NilRow == "nil"

\* Go's Item{}: PK 0 and a nil Row.
ZeroItem == [PK |-> 0, Row |-> NilRow]

\* &node{leaf: true}
EmptyLeaf == [leaf |-> TRUE, items |-> <<>>, children |-> <<>>]

\* btree.New
New(t) == [t |-> IF t < 2 THEN 2 ELSE t, root |-> EmptyLeaf, n |-> 0]

\* x appended to s whatever i is
InsertAtEnd(s, i, x) == Append(s, x)

\* s with x inserted so that it becomes the element of 0-based index i:
\* s = append(s, zero); copy(s[i+1:], s[i:]); s[i] = x
InsertAt(s, i, x) == SubSeq(s, 1, i) \o <<x>> \o SubSeq(s, i + 1, Len(s))

\* s with the element of 0-based index i replaced by x
ReplaceAt(s, i, x) == [s EXCEPT ![i + 1] = x]

\* sort.Search(len(items), func(i) bool { return items[i].PK >= pk }):
\* the binary search of the Go standard library.
RECURSIVE SearchLoop(_, _, _, _)
SearchLoop(items, pk, i, j) ==
    IF i < j
    THEN LET h == (i + j) \div 2
         IN  IF ~(items[h + 1].PK >= pk)
             THEN SearchLoop(items, pk, h + 1, j)
             ELSE SearchLoop(items, pk, i, h)
    ELSE i

Search(items, pk) == SearchLoop(items, pk, 0, Len(items))

\* ------------------------------------------------------------------------
\* package btree: Upsert
\* ------------------------------------------------------------------------

\* splitChild that promotes y.items[t] instead of the median y.items[t-1]:
\* y keeps t items and z gets only t-2
splitChildLateMedian(n, i, t) ==
    LET y == n.children[i + 1]
        median == y.items[t + 1]
        z == [leaf |-> y.leaf,
              items |-> SubSeq(y.items, t + 2, Len(y.items)),
              children |-> IF ~y.leaf
                           THEN SubSeq(y.children, t + 2, Len(y.children))
                           ELSE <<>>]
        y2 == [leaf |-> y.leaf,
               items |-> SubSeq(y.items, 1, t),
               children |-> IF ~y.leaf THEN SubSeq(y.children, 1, t + 1)
                                       ELSE y.children]
    IN  [leaf |-> n.leaf,
         items |-> InsertAt(n.items, i, median),
         children |-> InsertAt(ReplaceAt(n.children, i, y2), i + 1, z)]

\* splitChild that leaves all of y's children with y:
\* y.children = y.children[:t] is not done
splitChildKeepingChildren(n, i, t) ==
    LET y == n.children[i + 1]
        median == y.items[t]
        z == [leaf |-> y.leaf,
              items |-> SubSeq(y.items, t + 1, Len(y.items)),
              children |-> IF ~y.leaf
                           THEN SubSeq(y.children, t + 1, Len(y.children))
                           ELSE <<>>]
        y2 == [leaf |-> y.leaf,
               items |-> SubSeq(y.items, 1, t - 1),
               children |-> y.children]
    IN  [leaf |-> n.leaf,
         items |-> InsertAt(n.items, i, median),
         children |-> InsertAt(ReplaceAt(n.children, i, y2), i + 1, z)]

\* splitChild: n.children[i] is full; its median moves up into n.items[i],
\* its last t-1 items (and last t children) move into a new node z that
\* becomes n.children[i+1].
splitChild(n, i, t) ==
    LET y == n.children[i + 1]
        median == y.items[t]
        z == [leaf |-> y.leaf,
              items |-> SubSeq(y.items, t + 1, Len(y.items)),
              children |-> IF ~y.leaf
                           THEN SubSeq(y.children, t + 1, Len(y.children))
                           ELSE <<>>]
        y2 == [leaf |-> y.leaf,
               items |-> SubSeq(y.items, 1, t - 1),
               children |-> IF ~y.leaf THEN SubSeq(y.children, 1, t)
                                       ELSE y.children]
    IN  [leaf |-> n.leaf,
         items |-> InsertAt(n.items, i, median),
         children |-> InsertAt(ReplaceAt(n.children, i, y2), i + 1, z)]

\* What insertNonFull returns after its recursive call on n1.children[i1]
\* returned r: the child is n1's child still (the call works in place).
insertNonFullDescended(n1, i1, e, splits, same, r) ==
    [n |-> [n1 EXCEPT !.children = ReplaceAt(n1.children, i1, r.n)],
     old |-> r.old, replaced |-> r.replaced,
     enteredFull |-> e \/ r.enteredFull,
     splits |-> splits + r.splits,
     promotedSame |-> same \/ r.promotedSame]

\* insertNonFull that descends into a full child without splitting it
RECURSIVE insertNonFullNoChildSplit(_, _, _)
insertNonFullNoChildSplit(n, it, t) ==
    LET i == Search(n.items, it.PK)
        found == i < Len(n.items) /\ n.items[i + 1].PK = it.PK
        e == Len(n.items) >= 2 * t - 1
    IN  IF n.leaf
        THEN IF found
             THEN [n |-> [n EXCEPT !.items = ReplaceAt(n.items, i, it)],
                   old |-> n.items[i + 1], replaced |-> TRUE,
                   enteredFull |-> e, splits |-> 0, promotedSame |-> FALSE]
             ELSE [n |-> [n EXCEPT !.items = InsertAt(n.items, i, it)],
                   old |-> ZeroItem, replaced |-> FALSE,
                   enteredFull |-> e, splits |-> 0, promotedSame |-> FALSE]
        ELSE IF found
             THEN [n |-> [n EXCEPT !.items = ReplaceAt(n.items, i, it)],
                   old |-> n.items[i + 1], replaced |-> TRUE,
                   enteredFull |-> e, splits |-> 0, promotedSame |-> FALSE]
             ELSE LET full == FALSE
                      n1 == IF full THEN splitChild(n, i, t) ELSE n
                      i1 == IF full /\ it.PK > n1.items[i + 1].PK
                            THEN i + 1 ELSE i
                      same == full /\ n1.items[i + 1].PK = it.PK
                  IN  IF full /\ ~(it.PK > n1.items[i + 1].PK)
                              /\ it.PK = n1.items[i + 1].PK
                      THEN [n |-> [n1 EXCEPT
                                     !.items = ReplaceAt(n1.items, i, it)],
                            old |-> n1.items[i + 1], replaced |-> TRUE,
                            enteredFull |-> e, splits |-> 1,
                            promotedSame |-> same]
                      ELSE insertNonFullDescended(
                               n1, i1, e, IF full THEN 1 ELSE 0, same,
                               insertNonFullNoChildSplit(n1.children[i1 + 1], it, t))

\* insertNonFull that, after a split, descends into the left half when the
\* promoted median has the PK of the item
RECURSIVE insertNonFullDescendingAtMedian(_, _, _)
insertNonFullDescendingAtMedian(n, it, t) ==
    LET i == Search(n.items, it.PK)
        found == i < Len(n.items) /\ n.items[i + 1].PK = it.PK
        e == Len(n.items) >= 2 * t - 1
    IN  IF n.leaf
        THEN IF found
             THEN [n |-> [n EXCEPT !.items = ReplaceAt(n.items, i, it)],
                   old |-> n.items[i + 1], replaced |-> TRUE,
                   enteredFull |-> e, splits |-> 0, promotedSame |-> FALSE]
             ELSE [n |-> [n EXCEPT !.items = InsertAt(n.items, i, it)],
                   old |-> ZeroItem, replaced |-> FALSE,
                   enteredFull |-> e, splits |-> 0, promotedSame |-> FALSE]
        ELSE IF found
             THEN [n |-> [n EXCEPT !.items = ReplaceAt(n.items, i, it)],
                   old |-> n.items[i + 1], replaced |-> TRUE,
                   enteredFull |-> e, splits |-> 0, promotedSame |-> FALSE]
             ELSE LET full == Len(n.children[i + 1].items) = 2 * t - 1
                      n1 == IF full THEN splitChild(n, i, t) ELSE n
                      i1 == IF full /\ it.PK > n1.items[i + 1].PK
                            THEN i + 1 ELSE i
                      same == full /\ n1.items[i + 1].PK = it.PK
                  IN  IF full /\ ~(it.PK > n1.items[i + 1].PK)
                              /\ FALSE
                      THEN [n |-> [n1 EXCEPT
                                     !.items = ReplaceAt(n1.items, i, it)],
                            old |-> n1.items[i + 1], replaced |-> TRUE,
                            enteredFull |-> e, splits |-> 1,
                            promotedSame |-> same]
                      ELSE insertNonFullDescended(
                               n1, i1, e, IF full THEN 1 ELSE 0, same,
                               insertNonFullDescendingAtMedian(n1.children[i1 + 1], it, t))

\* insertNonFull: the node after the insertion, the old item and replaced;
\* and, of the calls made, whether one was entered on a node holding
\* 2t-1 items or more, the number of splitChild calls, and whether a
\* splitChild promoted a median with the PK of the item.
RECURSIVE insertNonFull(_, _, _)
insertNonFull(n, it, t) ==
    LET i == Search(n.items, it.PK)
        found == i < Len(n.items) /\ n.items[i + 1].PK = it.PK
        e == Len(n.items) >= 2 * t - 1
    IN  IF n.leaf
        THEN IF found
             THEN [n |-> [n EXCEPT !.items = ReplaceAt(n.items, i, it)],
                   old |-> n.items[i + 1], replaced |-> TRUE,
                   enteredFull |-> e, splits |-> 0, promotedSame |-> FALSE]
             ELSE [n |-> [n EXCEPT !.items = InsertAt(n.items, i, it)],
                   old |-> ZeroItem, replaced |-> FALSE,
                   enteredFull |-> e, splits |-> 0, promotedSame |-> FALSE]
        ELSE IF found
             THEN [n |-> [n EXCEPT !.items = ReplaceAt(n.items, i, it)],
                   old |-> n.items[i + 1], replaced |-> TRUE,
                   enteredFull |-> e, splits |-> 0, promotedSame |-> FALSE]
             ELSE LET full == Len(n.children[i + 1].items) = 2 * t - 1
                      n1 == IF full THEN splitChild(n, i, t) ELSE n
                      i1 == IF full /\ it.PK > n1.items[i + 1].PK
                            THEN i + 1 ELSE i
                      same == full /\ n1.items[i + 1].PK = it.PK
                  IN  IF full /\ ~(it.PK > n1.items[i + 1].PK)
                              /\ it.PK = n1.items[i + 1].PK
                      THEN [n |-> [n1 EXCEPT
                                     !.items = ReplaceAt(n1.items, i, it)],
                            old |-> n1.items[i + 1], replaced |-> TRUE,
                            enteredFull |-> e, splits |-> 1,
                            promotedSame |-> same]
                      ELSE insertNonFullDescended(
                               n1, i1, e, IF full THEN 1 ELSE 0, same,
                               insertNonFull(n1.children[i1 + 1], it, t))

\* The root Upsert works on: a full root r is put under a new root s and
\* split.
UpsertRoot(b) ==
    IF Len(b.root.items) = 2 * b.t - 1
    THEN splitChild([leaf |-> FALSE, items |-> <<>>, children |-> <<b.root>>],
                    0, b.t)
    ELSE b.root

\* What Upsert returns after insertNonFull returned res, counting every
\* call as an insertion
UpsertReturnedAlwaysCounting(b, it, splits, same, res) ==
    [tr |-> [t |-> b.t, root |-> res.n, n |-> b.n + 1],
     old |-> res.old, replaced |-> res.replaced,
     enteredFull |-> res.enteredFull,
     splits |-> splits + res.splits,
     promotedSame |-> same \/ res.promotedSame]

\* What Upsert returns after insertNonFull returned res: tr.n++ if the
\* item did not replace one; splits and same are those of the root split.
UpsertReturned(b, it, splits, same, res) ==
    [tr |-> [t |-> b.t, root |-> res.n,
             n |-> IF ~res.replaced THEN b.n + 1 ELSE b.n],
     old |-> res.old, replaced |-> res.replaced,
     enteredFull |-> res.enteredFull,
     splits |-> splits + res.splits,
     promotedSame |-> same \/ res.promotedSame]

\* Upsert that counts every call as an insertion
UpsertTreeAlwaysCounts(b, it) ==
    LET full == Len(b.root.items) = 2 * b.t - 1
    IN  UpsertReturnedAlwaysCounting(
            b, it, IF full THEN 1 ELSE 0,
            full /\ b.root.items[b.t].PK = it.PK,
            insertNonFull(UpsertRoot(b), it, b.t))

\* BTree.Upsert without the split of a full root
UpsertTreeNoRootSplit(b, it) ==
    UpsertReturned(b, it, 0, FALSE, insertNonFull(b.root, it, b.t))

\* BTree.Upsert: the tree after the call, the old item and replaced; and
\* what insertNonFull reports of its calls, the split of the root counted.
UpsertTree(b, it) ==
    LET full == Len(b.root.items) = 2 * b.t - 1
    IN  UpsertReturned(
            b, it, IF full THEN 1 ELSE 0,
            full /\ b.root.items[b.t].PK = it.PK,
            insertNonFull(UpsertRoot(b), it, b.t))

\* BTree.Len
TreeLen(b) == b.n

\* BTree.IsEmpty
IsEmpty(b) == b.n = 0

\* ------------------------------------------------------------------------
\* package btree: IterAscend and Iter.Next
\* ------------------------------------------------------------------------

\* Iter.pushLeft: push n and the nodes of its leftmost path.
RECURSIVE pushLeft(_, _)
pushLeft(stack, n) ==
    LET s1 == Append(stack, [n |-> n, i |-> 0])
    IN  IF n.leaf THEN s1 ELSE pushLeft(s1, n.children[1])

\* BTree.IterAscend: the frame stack of a new cursor.
IterAscend(b) == pushLeft(<<>>, b.root)

\* Next that does not descend into children[i+1] after emitting item i
RECURSIVE IterNextNoDescend(_)
IterNextNoDescend(stack) ==
    IF Len(stack) > 0
    THEN LET top == stack[Len(stack)]
             n == top.n
             i == top.i
         IN  IF i < Len(n.items)
             THEN [stack |-> [stack EXCEPT ![Len(stack)].i = i + 1],
                   item |-> n.items[i + 1], ok |-> TRUE]
             ELSE IterNextNoDescend(SubSeq(stack, 1, Len(stack) - 1))
    ELSE [stack |-> <<>>, item |-> ZeroItem, ok |-> FALSE]

\* Next that leaves the frame of the root on the stack, rewound, when it
\* reports the end
RECURSIVE IterNextRewinding(_)
IterNextRewinding(stack) ==
    IF Len(stack) > 0
    THEN LET top == stack[Len(stack)]
             n == top.n
             i == top.i
         IN  IF i < Len(n.items)
             THEN LET s1 == [stack EXCEPT ![Len(stack)].i = i + 1]
                  IN  [stack |-> IF ~n.leaf
                                 THEN pushLeft(s1, n.children[i + 2])
                                 ELSE s1,
                       item |-> n.items[i + 1], ok |-> TRUE]
             ELSE IF Len(stack) = 1
                  THEN [stack |-> <<[n |-> n, i |-> 0]>>, item |-> ZeroItem,
                        ok |-> FALSE]
                  ELSE IterNextRewinding(SubSeq(stack, 1, Len(stack) - 1))
    ELSE [stack |-> <<>>, item |-> ZeroItem, ok |-> FALSE]

\* Iter.Next: the stack after the call, the item and ok.
RECURSIVE IterNext(_)
IterNext(stack) ==
    IF Len(stack) > 0
    THEN LET top == stack[Len(stack)]
             n == top.n
             i == top.i
         IN  IF i < Len(n.items)
             THEN LET s1 == [stack EXCEPT ![Len(stack)].i = i + 1]
                  IN  [stack |-> IF ~n.leaf
                                 THEN pushLeft(s1, n.children[i + 2])
                                 ELSE s1,
                       item |-> n.items[i + 1], ok |-> TRUE]
             ELSE IterNext(SubSeq(stack, 1, Len(stack) - 1))
    ELSE [stack |-> <<>>, item |-> ZeroItem, ok |-> FALSE]

\* ------------------------------------------------------------------------
\* package btree: Get and AscendRange
\* ------------------------------------------------------------------------

\* Get that takes a key of an internal node for a separator only
RECURSIVE GetFromLeavesOnly(_, _)
GetFromLeavesOnly(n, pk) ==
    LET i == Search(n.items, pk)
    IN  IF n.leaf
        THEN IF i < Len(n.items) /\ n.items[i + 1].PK = pk
             THEN [row |-> n.items[i + 1].Row, found |-> TRUE]
             ELSE [row |-> NilRow, found |-> FALSE]
        ELSE GetFromLeavesOnly(n.children[i + 1], pk)

\* BTree.Get, from node n down: the row and found.
RECURSIVE GetFrom(_, _)
GetFrom(n, pk) ==
    LET i == Search(n.items, pk)
    IN  IF i < Len(n.items) /\ n.items[i + 1].PK = pk
        THEN [row |-> n.items[i + 1].Row, found |-> TRUE]
        ELSE IF n.leaf
             THEN [row |-> NilRow, found |-> FALSE]
             ELSE GetFrom(n.children[i + 1], pk)

Get(b, pk) == GetFrom(b.root, pk)

\* The visitor handed to AscendRange appends the item to visited and
\* returns false on its stop-th call (never when stop = 0).
VisitorContinues(visited, stop) == Len(visited) # stop

RECURSIVE ascendRangeNode(_, _, _, _, _, _)

\* ascendRangeNode's loop testing pk > lo instead of pk >= lo
RECURSIVE ascendRangeLoopOpenLo(_, _, _, _, _, _, _)

ascendRangeItemOpenLo(n, i, lo, hi, stop, c) ==
    IF ~c.ok
    THEN [ok |-> FALSE, visited |-> c.visited, examined |-> c.examined]
    ELSE LET pk == n.items[i + 1].PK
             inRange == pk > lo /\ pk < hi
             v1 == IF inRange THEN Append(c.visited, n.items[i + 1])
                              ELSE c.visited
             e1 == Append(c.examined, pk)
         IN  IF inRange /\ ~VisitorContinues(v1, stop)
             THEN [ok |-> FALSE, visited |-> v1, examined |-> e1]
             ELSE IF pk >= hi
                  THEN [ok |-> FALSE, visited |-> v1, examined |-> e1]
                  ELSE ascendRangeLoopOpenLo(n, i + 1, lo, hi, stop, v1, e1)

ascendRangeLoopOpenLo(n, i, lo, hi, stop, visited, examined) ==
    IF i < Len(n.items)
    THEN ascendRangeItemOpenLo(n, i, lo, hi, stop,
             IF ~n.leaf
             THEN ascendRangeNode(n.children[i + 1], lo, hi, stop,
                                  visited, examined)
             ELSE [ok |-> TRUE, visited |-> visited, examined |-> examined])
    ELSE IF ~n.leaf
         THEN ascendRangeNode(n.children[Len(n.items) + 1], lo, hi, stop,
                              visited, examined)
         ELSE [ok |-> TRUE, visited |-> visited, examined |-> examined]

\* ascendRangeNode's loop going on after a child returned false
RECURSIVE ascendRangeLoopIgnoringChild(_, _, _, _, _, _, _)

ascendRangeItemIgnoringChild(n, i, lo, hi, stop, c) ==
    IF FALSE
    THEN [ok |-> FALSE, visited |-> c.visited, examined |-> c.examined]
    ELSE LET pk == n.items[i + 1].PK
             inRange == pk >= lo /\ pk < hi
             v1 == IF inRange THEN Append(c.visited, n.items[i + 1])
                              ELSE c.visited
             e1 == Append(c.examined, pk)
         IN  IF inRange /\ ~VisitorContinues(v1, stop)
             THEN [ok |-> FALSE, visited |-> v1, examined |-> e1]
             ELSE IF pk >= hi
                  THEN [ok |-> FALSE, visited |-> v1, examined |-> e1]
                  ELSE ascendRangeLoopIgnoringChild(n, i + 1, lo, hi, stop, v1, e1)

ascendRangeLoopIgnoringChild(n, i, lo, hi, stop, visited, examined) ==
    IF i < Len(n.items)
    THEN ascendRangeItemIgnoringChild(n, i, lo, hi, stop,
             IF ~n.leaf
             THEN ascendRangeNode(n.children[i + 1], lo, hi, stop,
                                  visited, examined)
             ELSE [ok |-> TRUE, visited |-> visited, examined |-> examined])
    ELSE IF ~n.leaf
         THEN ascendRangeNode(n.children[Len(n.items) + 1], lo, hi, stop,
                              visited, examined)
         ELSE [ok |-> TRUE, visited |-> visited, examined |-> examined]

\* ascendRangeNode: the loop from index i on, then the last child; the
\* result is the returned bool, the items the visitor has been given and
\* the PKs of the items the traversal has looked at (pk := n.items[i].PK).
\* ascendRangeItem is the body of the loop after child i returned c.
RECURSIVE ascendRangeLoop(_, _, _, _, _, _, _)

ascendRangeItem(n, i, lo, hi, stop, c) ==
    IF ~c.ok
    THEN [ok |-> FALSE, visited |-> c.visited, examined |-> c.examined]
    ELSE LET pk == n.items[i + 1].PK
             inRange == pk >= lo /\ pk < hi
             v1 == IF inRange THEN Append(c.visited, n.items[i + 1])
                              ELSE c.visited
             e1 == Append(c.examined, pk)
         IN  IF inRange /\ ~VisitorContinues(v1, stop)
             THEN [ok |-> FALSE, visited |-> v1, examined |-> e1]
             ELSE IF pk >= hi
                  THEN [ok |-> FALSE, visited |-> v1, examined |-> e1]
                  ELSE ascendRangeLoop(n, i + 1, lo, hi, stop, v1, e1)

ascendRangeLoop(n, i, lo, hi, stop, visited, examined) ==
    IF i < Len(n.items)
    THEN ascendRangeItem(n, i, lo, hi, stop,
             IF ~n.leaf
             THEN ascendRangeNode(n.children[i + 1], lo, hi, stop,
                                  visited, examined)
             ELSE [ok |-> TRUE, visited |-> visited, examined |-> examined])
    ELSE IF ~n.leaf
         THEN ascendRangeNode(n.children[Len(n.items) + 1], lo, hi, stop,
                              visited, examined)
         ELSE [ok |-> TRUE, visited |-> visited, examined |-> examined]

ascendRangeNode(n, lo, hi, stop, visited, examined) ==
    ascendRangeLoop(n, 0, lo, hi, stop, visited, examined)

\* BTree.AscendRange: the items the visitor was called with, in call order.
AscendRange(b, lo, hi, stop) ==
    ascendRangeNode(b.root, lo, hi, stop, <<>>, <<>>).visited

\* ------------------------------------------------------------------------
\* Integers wider than the checker's: a Go int64 (and a Go int, 64 bits on
\* the platforms the program is built for) is four 16-bit limbs, least
\* significant first, in two's complement.
\* ------------------------------------------------------------------------

\* The int64 of an integer n with -2^31 < n < 2^31.
Int64Of(n) ==
    LET s == IF n < 0 THEN 65535 ELSE 0
    IN  <<n % 65536, (n \div 65536) % 65536, s, s>>

\* The conversion uint32(x) of an int x: its low 32 bits.
Uint32(x) == <<x[1], x[2]>>

\* ------------------------------------------------------------------------
\* package btreeWriting: the record codec.  A byte is a number in 0..255, a
\* field name or a string a sequence of bytes, a Row a sequence of fields
\* [Key, Val] with distinct keys (the entries of the Go map).
\* ------------------------------------------------------------------------

tagNil == 0
tagBool == 1
tagInt64 == 2
tagFloat == 3
tagString == 4
tagBytes == 5
tagJSON == 6

\* len(it.Row) > math.MaxUint16 is an encode error
MaxUint16 == 65535

\* len(k) > 255 is an encode error
MaxNameLen == 255

\* appendU16: v is a number in 0..65535
appendU16(dst, v) == dst \o <<v % 256, (v \div 256) % 256>>

\* appendU32: v is a uint32, two limbs
appendU32(dst, v) ==
    dst \o <<v[1] % 256, v[1] \div 256, v[2] % 256, v[2] \div 256>>

\* appendI64: v is an int64, four limbs
appendI64(dst, v) ==
    dst \o <<v[1] % 256, v[1] \div 256, v[2] % 256, v[2] \div 256,
             v[3] % 256, v[3] \div 256, v[4] % 256, v[4] \div 256>>

\* strconv.ParseInt(text, 10, 64) and strconv.Atoi(text) on a text of at most
\* nine characters: an optional sign and then one or more decimal digits.
IsDigit(c) == c >= 48 /\ c <= 57

RECURSIVE DigitsValue(_, _)
DigitsValue(text, acc) ==
    IF text = <<>> THEN acc
    ELSE DigitsValue(Tail(text), 10 * acc + (Head(text) - 48))

ParseInt(text) ==
    LET signed == text # <<>> /\ Head(text) \in {43, 45}
        digits == IF signed THEN Tail(text) ELSE text
        ok == /\ digits # <<>>
              /\ \A i \in 1..Len(digits) : IsDigit(digits[i])
        v == DigitsValue(digits, 0)
    IN  IF ok
        THEN [val |-> IF signed /\ Head(text) = 45 THEN 0 - v ELSE v,
              err |-> FALSE]
        ELSE [val |-> 0, err |-> TRUE]

\* The unsigned types appendAny converts with int64(x) unchecked; uint has
\* 64 bits on the platforms the program is built for.
UncheckedUnsigned == {"uint", "uint8", "uint16", "uint32"}

\* appendAny for the values a Row gets from the JSON decoder (which runs
\* with UseNumber): nil, bool, json.Number, string, and arrays and objects,
\* which take the json.Marshal fallback; and for the unsigned integers a
\* caller of the package can put into a Row, whose value v.u is four
\* limbs.  The result is dst and the error.
appendAny(dst, v) ==
    CASE v.type = "nil" -> [dst |-> dst \o <<tagNil>>, err |-> FALSE]
      [] v.type = "bool" ->
            [dst |-> dst \o <<tagBool>> \o (IF v.b THEN <<1>> ELSE <<0>>),
             err |-> FALSE]
      [] v.type = "number" ->
            IF ~ParseInt(v.text).err
            THEN [dst |-> appendI64(dst \o <<tagInt64>>,
                                    Int64Of(ParseInt(v.text).val)),
                  err |-> FALSE]
            ELSE [dst |-> appendU32(dst \o <<tagString>>,
                                    Uint32(Int64Of(Len(v.text)))) \o v.text,
                  err |-> FALSE]
      [] v.type = "string" ->
            [dst |-> appendU32(dst \o <<tagString>>,
                               Uint32(Int64Of(Len(v.text)))) \o v.text,
             err |-> FALSE]
      [] v.type \in UncheckedUnsigned ->
            [dst |-> appendI64(dst \o <<tagInt64>>, v.u), err |-> FALSE]
      [] v.type = "uint64" ->
            IF v.u[4] > 32767
            THEN [dst |-> dst, err |-> TRUE]
            ELSE [dst |-> appendI64(dst \o <<tagInt64>>, v.u), err |-> FALSE]
      [] OTHER ->
            IF v.marshalErr
            THEN [dst |-> dst, err |-> TRUE]
            ELSE [dst |-> appendU32(dst \o <<tagJSON>>,
                                    Uint32(Int64Of(Len(v.json)))) \o v.json,
                  err |-> FALSE]

\* The loop of encodeItemInto over the fields of row, taken in the order the
\* map iteration yields them: order lists the positions of row still to come.
RECURSIVE encodeFields(_, _, _)
encodeFields(dst, row, order) ==
    IF order = <<>> THEN [dst |-> dst, err |-> FALSE]
    ELSE LET k == row[Head(order)].Key
             v == row[Head(order)].Val
         IN  IF Len(k) > MaxNameLen
             THEN [dst |-> dst, err |-> TRUE]
             ELSE LET a == appendAny(dst \o <<Len(k) % 256>> \o k, v)
                  IN  IF a.err THEN [dst |-> a.dst, err |-> TRUE]
                      ELSE encodeFields(a.dst, row, Tail(order))

\* encodeItemInto: item.PK is the int64 of the Go int; the result is dst
\* and the error.
encodeItemInto(dst, item, order) ==
    LET d1 == appendU32(dst, Uint32(item.PK))
    IN  IF Len(item.Row) > MaxUint16
        THEN [dst |-> d1, err |-> TRUE]
        ELSE encodeFields(appendU16(d1, Len(item.Row)), item.Row, order)

\* The positions of a row in ascending order: one order the map iteration
\* can take.
Positions(row) == [i \in 1..Len(row) |-> i]

\* A btree.Item as encodeItemInto takes it: the PK as an int64.
WireItem(item) == [PK |-> Int64Of(item.PK), Row |-> item.Row]

\* ------------------------------------------------------------------------
\* package btreeWriting: Writer.  The file system is disk, a function from
\* file names to the records the file holds.  What the Writer holds of
\* bufio.Writer is the records buffered and its sticky error; of os.File the
\* name it was opened under and whether it has been closed.
\*
\* A record is kept as the Item it encodes.  Every record of the model is
\* far smaller than the 16 MiB buffer NewWriter allocates, so
\* bufio.Writer.Write only ever copies into the buffer and the bytes reach
\* the file when Close flushes.  The file system accepts every write to an
\* open file; opening a file can fail.
\* ------------------------------------------------------------------------

\* The nil *Writer createNewWriter returns with an error.
NilWriter == [nil |-> TRUE]

\* NewWriter.  closes and late are history: the number of Close calls made
\* on the Writer, and whether WriteItem or Close was called on it after a
\* Close.
NewWriter(f) ==
    [nil |-> FALSE, f |-> f, fclosed |-> FALSE, buffered |-> <<>>,
     bwErr |-> FALSE, BytesWritten |-> 0, Records |-> 0,
     closes |-> 0, late |-> FALSE]

\* Writer.WriteItem after encodeItemInto returned enc: the writer after
\* the call and whether it returned an error.  bufio.Writer.Write fails
\* when the sticky error is set.
WriteEncoded(w, item, enc) ==
    IF enc.err THEN [w |-> [w EXCEPT !.late = @ \/ w.fclosed], err |-> TRUE]
    ELSE IF w.bwErr
    THEN [w |-> [w EXCEPT !.late = @ \/ w.fclosed], err |-> TRUE]
    ELSE [w |-> [w EXCEPT !.buffered = Append(@, item),
                           !.BytesWritten = @ + 4 + Len(enc.dst),
                           !.Records = @ + 1,
                           !.late = @ \/ w.fclosed],
          err |-> FALSE]

\* Writer.WriteItem
WriteItem(w, item) ==
    WriteEncoded(w, item,
                 encodeItemInto(<<>>, WireItem(item), Positions(item.Row)))

\* bufio.Writer.Flush as Writer.Flush and Writer.Close call it: the sticky
\* error if set, nothing to do on an empty buffer, else one write to the
\* file, which fails on a closed file and then sets the sticky error.
Flush(w, d) ==
    IF w.bwErr THEN [w |-> w, disk |-> d, err |-> TRUE]
    ELSE IF w.buffered = <<>> THEN [w |-> w, disk |-> d, err |-> FALSE]
    ELSE IF w.fclosed \/ w.f \notin DOMAIN d
         THEN [w |-> [w EXCEPT !.bwErr = TRUE], disk |-> d, err |-> TRUE]
         ELSE [w |-> [w EXCEPT !.buffered = <<>>],
               disk |-> [d EXCEPT ![w.f] = @ \o w.buffered],
               err |-> FALSE]

\* Writer.Close after its Flush returned r: the file is closed either way;
\* closing a file that is already closed is an error.
CloseFlushed(r, wasClosed) ==
    [w |-> [r.w EXCEPT !.fclosed = TRUE, !.closes = @ + 1,
                       !.late = @ \/ wasClosed],
     disk |-> r.disk, err |-> r.err \/ wasClosed]

\* Writer.Close
Close(w, d) == CloseFlushed(Flush(w, d), w.fclosed)

\* ------------------------------------------------------------------------
\* package main: helpers of the ingestion
\* ------------------------------------------------------------------------

\* tr = btree.New(32)
DriverDegree == 32

\* fmt.Sprintf("%d_%s.spdb", minKey, "lower")
LowerName(a) == [a |-> a, b |-> 0, lower |-> TRUE]

\* fmt.Sprintf("%d_%d.spdb", a, b)
SegmentName(a, b) == [a |-> a, b |-> b, lower |-> FALSE]

\* os.OpenFile(path, O_CREATE|O_TRUNC|O_WRONLY): the file exists and is
\* empty afterwards.
CreateFile(d, name) ==
    [f \in DOMAIN d \cup {name} |-> IF f = name THEN <<>> ELSE d[f]]

\* createNewWriter: fails is whether os.OpenFile returns an error.
createNewWriter(name, d, fails) ==
    IF fails THEN [spw |-> NilWriter, disk |-> d, err |-> TRUE]
    ELSE [spw |-> NewWriter(name), disk |-> CreateFile(d, name), err |-> FALSE]

\* renameFile (os.Rename): replaces newPath; an error (oldPath missing) is
\* dropped by the caller and changes nothing.
renameFile(d, oldPath, newPath) ==
    IF oldPath \notin DOMAIN d THEN d
    ELSE [f \in (DOMAIN d \ {oldPath}) \cup {newPath} |->
             IF f = newPath THEN d[oldPath] ELSE d[f]]

\* ToInt.  The decoder runs with UseNumber, so the values it is given are
\* json.Number, string, bool, nil, arrays and objects; an int is returned
\* as it is.
ToInt(v) ==
    CASE v.type = "int" -> [val |-> v.i, err |-> FALSE]
      [] v.type = "number" -> ParseInt(v.text)
      [] v.type = "string" -> ParseInt(v.text)
      [] OTHER -> [val |-> 0, err |-> TRUE]

\* tempMap[pair.Key] = pair.Val
MapSet(row, pair) ==
    IF \E i \in 1..Len(row) : row[i].Key = pair.Key
    THEN [i \in 1..Len(row) |->
             IF row[i].Key = pair.Key THEN pair ELSE row[i]]
    ELSE Append(row, pair)

\* The Row built from the pairs after the first.
RECURSIVE RowOf(_, _)
RowOf(pairs, row) ==
    IF pairs = <<>> THEN row ELSE RowOf(Tail(pairs), MapSet(row, Head(pairs)))

\* The test that ends iteratorWriter's loop.
ReachedBreak(w, breakAtBytes) ==
    w.BytesWritten >= breakAtBytes /\ breakAtBytes # 0

\* iteratorWriter's handling of a WriteItem that returned w1: on an error
\* the writer is closed; the loop goes on either way.
CloseOnError(w1, d) ==
    IF w1.err THEN Close(w1.w, d) ELSE [w |-> w1.w, disk |-> d, err |-> FALSE]

\* What one pass of iteratorWriter's loop leaves: the cursor, the writer
\* and the disk after it, the item the cursor gave, whether WriteItem was
\* called and failed, whether the function has returned (and what), and
\* whether the process has panicked on the nil writer.
PassResult(stack, c, item, wrote, writeErr, returned, result, panic) ==
    [stack |-> stack, spw |-> c.w, disk |-> c.disk, item |-> item,
     wrote |-> wrote, writeErr |-> writeErr,
     returned |-> returned, result |-> result, panic |-> panic]

\* The end of a pass in which WriteItem was called: the threshold test.
PassAfterWrite(r, c1, writeErr, breakAtBytes) ==
    IF ReachedBreak(c1.w, breakAtBytes)
    THEN PassResult(r.stack, Close(c1.w, c1.disk), r.item, TRUE, writeErr,
                    TRUE, r.item.PK, FALSE)
    ELSE PassResult(r.stack, c1, r.item, TRUE, writeErr, FALSE, 0, FALSE)

\* A pass in which WriteItem returned w1.
PassAfterWriteItem(r, w1, breakAtBytes, d) ==
    PassAfterWrite(r, CloseOnError(w1, d), w1.err, breakAtBytes)

\* A pass in which it.Next() returned r.
PassAfterNext(r, spw, breakAtBytes, d) ==
    IF spw.nil
    THEN PassResult(r.stack, [w |-> spw, disk |-> d], r.item, FALSE, FALSE,
                    FALSE, 0, TRUE)
    ELSE IF ~r.ok
    THEN PassResult(r.stack, Close(spw, d), r.item, FALSE, FALSE,
                    TRUE, 0, FALSE)
    ELSE PassAfterWriteItem(r, WriteItem(spw, r.item), breakAtBytes, d)

\* One pass of iteratorWriter's loop.
iteratorWriter(stack, spw, breakAtBytes, d) ==
    PassAfterNext(IterNext(stack), spw, breakAtBytes, d)

\* ------------------------------------------------------------------------
\* package btreeWriting: Writer, byte by byte.  The Writer is
\* [bw, BytesWritten, Records]: bw is its bufio.Writer [buf, err], the
\* bytes buffered and the sticky error, "nil" when there is none.
\* The file is [closed, broken, data]: data is what has been written to
\* it, and a write to a closed or broken file writes nothing and fails.
\* ------------------------------------------------------------------------

\* The size of the bufio.Writer.  NewWriter asks for 16<<20 bytes; the
\* model scales the buffer down so that records fill it, as records of
\* mebibytes fill the real one.
BufSize == 16

\* os.File.Write
fileWrite(f, p) ==
    IF f.closed \/ f.broken THEN [f |-> f, err |-> "write"]
    ELSE [f |-> [f EXCEPT !.data = @ \o p], err |-> "nil"]

\* os.File.Close: the descriptor is released either way; closing a closed
\* file or a failing close(2) (fails) is an error.
fileClose(f, fails) ==
    [f |-> [f EXCEPT !.closed = TRUE],
     err |-> IF f.closed \/ fails THEN "close" ELSE "nil"]

\* bufio.Writer.Flush after the write of the buffer returned r.
bufioFlushed(bw, r) ==
    IF r.err # "nil"
    THEN [bw |-> [bw EXCEPT !.err = r.err], f |-> r.f, err |-> r.err]
    ELSE [bw |-> [bw EXCEPT !.buf = <<>>], f |-> r.f, err |-> "nil"]

\* bufio.Writer.Flush
bufioFlush(bw, f) ==
    IF bw.err # "nil" THEN [bw |-> bw, f |-> f, err |-> bw.err]
    ELSE IF bw.buf = <<>> THEN [bw |-> bw, f |-> f, err |-> "nil"]
    ELSE bufioFlushed(bw, fileWrite(f, bw.buf))

\* The number of bytes of p that fit into the buffer.
Fits(bw, p) ==
    IF Len(p) <= BufSize - Len(bw.buf) THEN Len(p) ELSE BufSize - Len(bw.buf)

\* bufio.Writer.Write: while p does not fit and there is no error, an
\* empty buffer lets p go to the file directly, else the buffer is filled
\* and flushed; what is left of p is copied into the buffer.
RECURSIVE bufioWrite(_, _, _)
bufioWriteDirect(bw, r) ==
    [bw |-> [bw EXCEPT !.err = r.err], f |-> r.f, err |-> r.err]

bufioWriteFilled(r, rest) ==
    IF r.err # "nil" THEN r ELSE bufioWrite(r.bw, r.f, rest)

bufioWrite(bw, f, p) ==
    IF bw.err # "nil" THEN [bw |-> bw, f |-> f, err |-> bw.err]
    ELSE IF Len(p) <= BufSize - Len(bw.buf)
    THEN [bw |-> [bw EXCEPT !.buf = @ \o p], f |-> f, err |-> "nil"]
    ELSE IF bw.buf = <<>>
    THEN bufioWriteDirect(bw, fileWrite(f, p))
    ELSE bufioWriteFilled(
             bufioFlush([bw EXCEPT !.buf = @ \o SubSeq(p, 1, Fits(bw, p))], f),
             SubSeq(p, Fits(bw, p) + 1, Len(p)))

\* writeU32ToWriter: v is a number below 2^16 here
writeU32ToWriter(bw, f, v) ==
    bufioWrite(bw, f, appendU32(<<>>, <<v, 0>>))

\* What a call of Writer.WriteItem leaves: the Writer, the file, the error
\* returned, the return statement taken (path), and pool: the calls made
\* on the pool, in order.
WriteItemResult(w, bw, f, err, path, pool) ==
    [w |-> [w EXCEPT !.bw = bw], f |-> f, err |-> err, path |-> path,
     pool |-> pool]

\* WriteItem that counts the record although writing the payload failed
WriteItemPayloadWrittenCountingFailures(w, enc, r) ==
    WriteItemResult([w EXCEPT !.BytesWritten = @ + 4 + Len(enc.dst),
                              !.Records = @ + 1],
                    r.bw, r.f, r.err,
                    IF r.err # "nil" THEN "payload" ELSE "ok",
                    <<"Get", "Put">>)

\* WriteItem after the payload was written, which left r.
WriteItemPayloadWritten(w, enc, r) ==
    IF r.err # "nil"
    THEN WriteItemResult(w, r.bw, r.f, r.err, "payload", <<"Get", "Put">>)
    ELSE WriteItemResult([w EXCEPT !.BytesWritten = @ + 4 + Len(enc.dst),
                                   !.Records = @ + 1],
                         r.bw, r.f, "nil", "ok", <<"Get", "Put">>)

\* WriteItem after the length prefix was written, which left r.
WriteItemPrefixWritten(w, enc, r) ==
    IF r.err # "nil"
    THEN WriteItemResult(w, r.bw, r.f, r.err, "prefix", <<"Get", "Put">>)
    ELSE WriteItemPayloadWritten(w, enc, bufioWrite(r.bw, r.f, enc.dst))

\* WriteItem that keeps the scratch buffer on an encode error
WriteItemBytesLeaking(w, f, enc) ==
    IF enc.err
    THEN WriteItemResult(w, w.bw, f, "encode", "encode", <<"Get">>)
    ELSE WriteItemPrefixWritten(w, enc,
                                writeU32ToWriter(w.bw, f, Len(enc.dst)))

\* WriteItem that writes the length prefix before it looks at the encode
\* error
WriteItemBytesPrefixFirst(w, f, enc) ==
    IF enc.err
    THEN WriteItemResult(w, writeU32ToWriter(w.bw, f, Len(enc.dst)).bw, f,
                         "encode", "encode", <<"Get", "Put">>)
    ELSE WriteItemPrefixWritten(w, enc,
                                writeU32ToWriter(w.bw, f, Len(enc.dst)))

\* WriteItem after encodeItemInto returned enc.
WriteItemBytes(w, f, enc) ==
    IF enc.err
    THEN WriteItemResult(w, w.bw, f, "encode", "encode", <<"Get", "Put">>)
    ELSE WriteItemPrefixWritten(w, enc,
                                writeU32ToWriter(w.bw, f, Len(enc.dst)))

\* Writer.Flush
WriterFlush(w, f) == bufioFlush(w.bw, f)

\* Writer.Close that leaves the file open when the flush fails
WriterCloseFlushedLeavingOpen(r, fails) ==
    IF r.err # "nil" THEN [bw |-> r.bw, f |-> r.f, err |-> r.err]
    ELSE [bw |-> r.bw, f |-> fileClose(r.f, fails).f,
          err |-> fileClose(r.f, fails).err]

\* Writer.Close after its flush returned r: the file is closed on both
\* paths, and the flush error wins over the close error.
WriterCloseFlushed(r, fails) ==
    IF r.err # "nil"
    THEN [bw |-> r.bw, f |-> fileClose(r.f, fails).f, err |-> r.err]
    ELSE [bw |-> r.bw, f |-> fileClose(r.f, fails).f,
          err |-> fileClose(r.f, fails).err]

\* Writer.Close
WriterClose(w, f, fails) == WriterCloseFlushed(bufioFlush(w.bw, f), fails)

\* ------------------------------------------------------------------------
\* State
\* ------------------------------------------------------------------------

VARIABLES
    tr,        \* the BTree (in package main: the global tr)
    it,        \* the cursor in use: NoIter or [stack |-> frames]
    yielded,   \* the PKs the cursor has returned with ok = true, in order
    ret,       \* what the last call returned
    upserted,  \* the items upserted into tr, the latest of each PK
    budget,          \* MaxMemorySize
    main,            \* importDataFromFile: where it stands and its locals
    currentMapSize,  \* package main's globals
    minKey,
    maxKey,
    setMinMaxKey,
    fl,        \* writeMapToFile: its locals
    disk,      \* the storage directory: file name -> records in the file
    hist,      \* history of the ingestion pass, for the properties
    writer,    \* a btreeWriting.Writer with its bufio.Writer, byte by byte
    file       \* the os.File that Writer wraps

indexVars == <<tr, it, yielded, ret, upserted>>

driverVars == <<budget, main, currentMapSize, minKey, maxKey, setMinMaxKey,
                fl, disk, hist>>

writerVars == <<writer, file>>

vars == <<tr, it, yielded, ret, upserted, budget, main, currentMapSize,
          minKey, maxKey, setMinMaxKey, fl, disk, hist, writer, file>>

NoIter == [stack |-> <<>>, live |-> FALSE]

\* writeMapToFile's locals before the function is entered.  prevBytes,
\* exhausted and upper are history: the lower writer's BytesWritten before
\* its last WriteItem, whether the lower loop ended on an exhausted cursor,
\* and whether the upper segment was opened.
NoFlush ==
    [spw |-> NilWriter, item |-> ZeroItem, HalfMemorySize |-> 0,
     minSplitMax |-> 0, maxSplitMin |-> 0,
     lowerFile |-> LowerName(0), finalLower |-> SegmentName(0, 0),
     upperFile |-> SegmentName(0, 0),
     prevBytes |-> 0, exhausted |-> FALSE, upper |-> FALSE]

\* No Writer is under test.
NoWriter ==
    /\ writer = [bw |-> [buf |-> <<>>, err |-> "nil"],
                 BytesWritten |-> 0, Records |-> 0]
    /\ file = [closed |-> TRUE, broken |-> FALSE, data |-> <<>>]

\* No ingestion pass is running.
NoIngest ==
    /\ budget = 0
    /\ main = [pc |-> "idle", writeToDisk |-> FALSE, lineSize |-> 0,
               line |-> 0, consumed |-> 0, caller |-> "idle"]
    /\ currentMapSize = 0
    /\ minKey = 0
    /\ maxKey = 0
    /\ setMinMaxKey = FALSE
    /\ fl = NoFlush
    /\ disk = <<>>
    /\ hist = [read |-> <<>>, upserts |-> <<>>, batch |-> {},
               batchBytes |-> 0, sizeAtScan |-> 0, flushed |-> {},
               flushedAfterScan |-> FALSE, overwritten |-> FALSE]

\* ------------------------------------------------------------------------
\* The Index specification: one client calling the BTree's methods.  The
\* client holds at most one cursor and drops it before any other call, as
\* the Index must not change while a cursor is live.
\* ------------------------------------------------------------------------

IndexInit ==
    /\ \E t \in 1..MaxDegree : tr = New(t)
    /\ it = NoIter
    /\ yielded = <<>>
    /\ ret = [op |-> "New"]
    /\ upserted = {}
    /\ NoIngest
    /\ NoWriter

\* Upsert(item) returned r.
UpsertApplied(item, r) ==
    /\ tr' = r.tr
    /\ ret' = [op |-> "Upsert", item |-> item, old |-> r.old,
               replaced |-> r.replaced, enteredFull |-> r.enteredFull,
               splits |-> r.splits, promotedSame |-> r.promotedSame]
    /\ upserted' = {x \in upserted : x.PK # item.PK} \cup {item}
    /\ it' = NoIter
    /\ yielded' = <<>>
    /\ UNCHANGED <<driverVars, writerVars>>

UpsertCall(pk, row) ==
    UpsertApplied([PK |-> pk, Row |-> row],
                  UpsertTree(tr, [PK |-> pk, Row |-> row]))

IterAscendCall ==
    /\ it' = [stack |-> IterAscend(tr), live |-> TRUE]
    /\ yielded' = <<>>
    /\ ret' = [op |-> "IterAscend"]
    /\ UNCHANGED <<tr, upserted>>
    /\ UNCHANGED <<driverVars, writerVars>>

\* The calls of Next made on a cursor after it first returned ok = false
\* are counted up to MaxAfter.
MaxAfter == 2

\* ret.after counts the calls of Next made since the cursor first returned
\* ok = false.
NextCall ==
    /\ it.live
    /\ LET r == IterNext(it.stack)
       IN  /\ it' = [it EXCEPT !.stack = r.stack]
           /\ yielded' = IF r.ok THEN Append(yielded, r.item.PK) ELSE yielded
           /\ ret' = [op |-> "Next", item |-> r.item, ok |-> r.ok,
                      after |-> IF ret.op = "Next" /\ ~ret.ok
                                THEN IF ret.after < MaxAfter
                                     THEN ret.after + 1 ELSE MaxAfter
                                ELSE 0]
    /\ UNCHANGED <<tr, upserted>>
    /\ UNCHANGED <<driverVars, writerVars>>

\* The calls of AscendRange with a visitor that returns false on its
\* stop-th call.
StoppedCalls == {[lo |-> 0, hi |-> 100, stop |-> 1],
                 [lo |-> 0, hi |-> 100, stop |-> 3],
                 [lo |-> 7, hi |-> 12, stop |-> 2]}

\* AscendRange(lo, hi, visit) returned after the traversal r.
AscendRangeReturned(lo, hi, stop, r) ==
    /\ ret' = [op |-> "AscendRange", lo |-> lo, hi |-> hi, stop |-> stop,
               visited |-> r.visited, examined |-> r.examined]
    /\ it' = NoIter
    /\ yielded' = <<>>
    /\ UNCHANGED <<tr, upserted>>
    /\ UNCHANGED <<driverVars, writerVars>>

AscendRangeCall(lo, hi, stop) ==
    AscendRangeReturned(lo, hi, stop,
                        ascendRangeNode(tr.root, lo, hi, stop, <<>>, <<>>))

\* The PKs asked of Get: those offered to Upsert and three never upserted.
GetPKs == IndexPKs \cup {0, 8, 31}

GetCall(pk) ==
    /\ ret' = [op |-> "Get", pk |-> pk, row |-> Get(tr, pk).row,
               found |-> Get(tr, pk).found]
    /\ it' = NoIter
    /\ yielded' = <<>>
    /\ UNCHANGED <<tr, upserted>>
    /\ UNCHANGED <<driverVars, writerVars>>

IndexNext ==
    \/ \E pk \in IndexPKs : \E row \in IndexRows(pk) : UpsertCall(pk, row)
    \/ IterAscendCall
    \/ NextCall

SpecIndex == IndexInit /\ [][IndexNext]_vars

\* The range specification: one client that upserts and traverses ranges.
RangeNext ==
    \/ \E pk \in IndexPKs : \E row \in IndexRows(pk) : UpsertCall(pk, row)
    \/ \E lo \in RangeLos, hi \in RangeHis : AscendRangeCall(lo, hi, 0)
    \/ \E c \in StoppedCalls : AscendRangeCall(c.lo, c.hi, c.stop)

SpecRange == IndexInit /\ [][RangeNext]_vars

\* The lookup specification: one client that upserts and looks keys up.
LookupNext ==
    \/ \E pk \in IndexPKs : \E row \in IndexRows(pk) : UpsertCall(pk, row)
    \/ \E pk \in GetPKs : GetCall(pk)

SpecLookup == IndexInit /\ [][LookupNext]_vars

\* ------------------------------------------------------------------------
\* The Codec specification: a caller encoding one Item after another.  ret
\* holds the last call and, in prev, the call before it.
\* ------------------------------------------------------------------------

\* PKs of the Go int (64 bits), as limbs: 0, 1, 42, 2^31 - 1, 2^31,
\* 2^32 - 1, 2^32, 2^32 + 42, -1, the largest and the smallest int64.
CodecPKs ==
    { <<0, 0, 0, 0>>, <<1, 0, 0, 0>>, <<42, 0, 0, 0>>,
      <<65535, 32767, 0, 0>>, <<0, 32768, 0, 0>>, <<65535, 65535, 0, 0>>,
      <<0, 0, 1, 0>>, <<42, 0, 1, 0>>,
      <<65535, 65535, 65535, 65535>>, <<65535, 65535, 65535, 32767>>,
      <<0, 0, 0, 32768>> }

\* Rows: {}, {"a": 7} and {"a": "x", "b": 1.5} as the JSON decoder
\* delivers them.
CodecRows ==
    { <<>>,
      <<[Key |-> <<97>>, Val |-> [type |-> "number", text |-> <<55>>]]>>,
      <<[Key |-> <<97>>, Val |-> [type |-> "string", text |-> <<120>>]],
        [Key |-> <<98>>, Val |-> [type |-> "number", text |-> <<49, 46, 53>>]]>> }

\* The orders in which the map iteration can yield the fields of row.
Orders(row) ==
    {o \in [1..Len(row) -> 1..Len(row)] :
        \A i, j \in 1..Len(row) : o[i] = o[j] => i = j}

CodecInit ==
    /\ tr = New(DriverDegree)
    /\ it = NoIter
    /\ yielded = <<>>
    /\ ret = [op |-> "none"]
    /\ upserted = {}
    /\ NoIngest
    /\ NoWriter

EncodeCall(pk, row, order) ==
    LET item == [PK |-> pk, Row |-> row]
        r == encodeItemInto(<<>>, item, order)
    IN  /\ ret' = [op |-> "Encode", item |-> item, dst |-> r.dst,
                   err |-> r.err,
                   prev |-> IF ret.op = "Encode"
                            THEN [set |-> TRUE, item |-> ret.item,
                                  dst |-> ret.dst, err |-> ret.err]
                            ELSE [set |-> FALSE, item |-> item,
                                  dst |-> r.dst, err |-> r.err]]
        /\ UNCHANGED <<tr, it, yielded, upserted>>
        /\ UNCHANGED <<driverVars, writerVars>>

\* Rows {"u": x} with x an unsigned integer: the largest uint32, the
\* largest int64, 2^63 and the largest uint64, as uint32, uint or uint64.
UnsignedRows ==
    { <<[Key |-> <<117>>, Val |-> [type |-> ty, u |-> u]]>> :
        ty \in {"uint", "uint64"},
        u \in { <<65535, 65535, 65535, 32767>>, <<0, 0, 0, 32768>>,
                <<65535, 65535, 65535, 65535>> } }
    \cup { <<[Key |-> <<117>>,
              Val |-> [type |-> "uint32", u |-> <<65535, 65535, 0, 0>>]]>> }

CodecNext ==
    \/ \E pk \in CodecPKs : \E row \in CodecRows : \E order \in Orders(row) :
          EncodeCall(pk, row, order)
    \/ \E row \in UnsignedRows : EncodeCall(<<1, 0, 0, 0>>, row, <<1>>)

SpecCodec == CodecInit /\ [][CodecNext]_vars

\* ------------------------------------------------------------------------
\* The Ingest specification: one run of importDataFromFile over an input
\* file, with the flushes it calls.  The file is read line by line; what
\* the rest of the file holds is chosen when the scanner reads it.  Every
\* line ends with a newline, so the file's size is the sum over its lines
\* of the raw length plus one.
\* ------------------------------------------------------------------------

\* The number of lines of the input file is at most MaxLines.
MaxLines == 3

\* MaxMemorySize
Budgets == {1, 20, 30, 280, 418}

KeyId == <<105, 100>>

Number(k) == [type |-> "number", text |-> <<48 + k>>]

\* {"id":k} padded with blanks to len bytes
SmallLine(k, len) ==
    [ok |-> TRUE, len |-> len, pairs |-> <<[Key |-> KeyId, Val |-> Number(k)]>>]

\* {"id":1,"a":1,"b":1,...,"v":1}: 22 fields after the key
BigLine ==
    [ok |-> TRUE, len |-> 140,
     pairs |-> <<[Key |-> KeyId, Val |-> Number(1)]>> \o
               [i \in 1..22 |-> [Key |-> <<96 + i>>, Val |-> Number(1)]]]

\* {"id":2,"aaa...a":1} with a field name of 256 bytes
LongNameLine ==
    [ok |-> TRUE, len |-> 269,
     pairs |-> <<[Key |-> KeyId, Val |-> Number(2)],
                 [Key |-> [i \in 1..256 |-> 97], Val |-> Number(1)]>>]

\* {"id":"x"}
TextKeyLine ==
    [ok |-> TRUE, len |-> 10,
     pairs |-> <<[Key |-> KeyId, Val |-> [type |-> "string", text |-> <<120>>]]>>]

\* {}
EmptyObjectLine == [ok |-> TRUE, len |-> 2, pairs |-> <<>>]

\* {"id": which is not a JSON object
MalformedLine == [ok |-> FALSE, len |-> 6, pairs |-> <<>>]

\* The lines an input file is made of, by number.
LineIds == 1..11

Line(id) ==
    CASE id \in 1..3 -> SmallLine(id, 8)
      [] id \in 4..6 -> SmallLine(id - 3, 12)
      [] id = 7 -> BigLine
      [] id = 8 -> LongNameLine
      [] id = 9 -> TextKeyLine
      [] id = 10 -> EmptyObjectLine
      [] OTHER -> MalformedLine

\* readOrderedObject on the tokens of a line: the pairs of the object in
\* the order of the text, or an error when the line is not one JSON object.
readOrderedObject(line) == [pairs |-> line.pairs, err |-> ~line.ok]

\* The budget test before a line is decoded, ignoring the line
NeedsFlushIgnoringLine(lineSize, size, MaxMemorySize) == size > MaxMemorySize

\* lineSize+currentMapSize > MaxMemorySize
NeedsFlush(lineSize, size, MaxMemorySize) == lineSize + size > MaxMemorySize

IngestInit ==
    /\ tr = New(DriverDegree)
    /\ it = NoIter
    /\ yielded = <<>>
    /\ ret = [op |-> "none"]
    /\ upserted = {}
    /\ budget \in Budgets
    /\ main = [pc |-> "open", writeToDisk |-> FALSE, lineSize |-> 0,
               line |-> 0, consumed |-> 0, caller |-> "open"]
    /\ currentMapSize = 0
    /\ minKey = 0
    /\ maxKey = 0
    /\ setMinMaxKey = FALSE
    /\ fl = NoFlush
    /\ disk = <<>>
    /\ hist = [read |-> <<>>, upserts |-> <<>>, batch |-> {},
               batchBytes |-> 0, sizeAtScan |-> 0, flushed |-> {},
               flushedAfterScan |-> FALSE, overwritten |-> FALSE]
    /\ NoWriter

\* os.Open, file.Stat and the writeToDisk decision: large is whether the
\* file's size exceeds the budget.
OpenFile(large) ==
    /\ main.pc = "open"
    /\ main' = [main EXCEPT !.pc = "scan", !.writeToDisk = large]
    /\ UNCHANGED <<tr, it, yielded, ret, upserted, budget, currentMapSize,
                   minKey, maxKey, setMinMaxKey, fl, disk, hist, writer, file>>

\* scanner.Scan() returns true with the line id, then the budget test: the
\* line is decoded next, after a flush if the test asks for one.  A file
\* that Stat found no larger than the budget has no line that would make
\* it larger.
ScanLine(id) ==
    LET lineSize == IF main.writeToDisk THEN Line(id).len ELSE main.lineSize
        flush == /\ main.writeToDisk
                 /\ NeedsFlush(lineSize, currentMapSize, budget)
    IN  /\ main.pc = "scan"
        /\ Len(hist.read) < MaxLines
        /\ ~main.writeToDisk => main.consumed + Line(id).len + 1 <= budget
        /\ main' = [main EXCEPT !.pc = IF flush THEN "createLower" ELSE "decode",
                                !.caller = "scan",
                                !.lineSize = lineSize,
                                !.line = id,
                                !.consumed = @ + Line(id).len + 1]
        /\ hist' = [hist EXCEPT !.read = Append(@, id),
                                !.sizeAtScan = hist.batchBytes,
                                !.flushedAfterScan = FALSE]
        /\ UNCHANGED <<tr, it, yielded, ret, upserted, budget, currentMapSize,
                       minKey, maxKey, setMinMaxKey, fl, disk, writer, file>>

\* scanner.Scan() returns false: the final flush if writeToDisk and the
\* Index holds items, else the pass ends.  A file that Stat found larger
\* than the budget ends only after more bytes than the budget.
ScanEOF ==
    /\ main.pc = "scan"
    /\ main.writeToDisk => main.consumed > budget
    /\ main' = [main EXCEPT !.pc = IF main.writeToDisk /\ TreeLen(tr) > 0
                                   THEN "createLower" ELSE "done",
                            !.caller = "eof",
                            !.line = 0]
    /\ UNCHANGED <<tr, it, yielded, ret, upserted, budget, currentMapSize,
                   minKey, maxKey, setMinMaxKey, fl, disk, hist, writer, file>>

\* The min/max tracking of the first pair's PrimaryKey.
TrackMinMax(PrimaryKey) ==
    LET min1 == IF ~setMinMaxKey THEN PrimaryKey ELSE minKey
        max1 == IF ~setMinMaxKey THEN PrimaryKey ELSE maxKey
    IN  [minKey |-> IF PrimaryKey < min1 THEN PrimaryKey ELSE min1,
         maxKey |-> IF PrimaryKey > max1 THEN PrimaryKey ELSE max1,
         setMinMaxKey |-> TRUE]

\* The body of the scanner loop after the budget test: decode the line
\* (os.Exit(1) when it is not an object), take the PrimaryKey from the
\* first pair (a ToInt error is logged and leaves 0), track min and max,
\* build the Row from the other pairs, Upsert, and add to the size counter.
ProcessLine ==
    LET r == readOrderedObject(Line(main.line))
        pairs == r.pairs
        conv == IF pairs = <<>> THEN [val |-> 0, err |-> FALSE]
                ELSE ToInt(pairs[1].Val)
        PrimaryKey == conv.val
        mm == IF pairs = <<>>
              THEN [minKey |-> minKey, maxKey |-> maxKey,
                    setMinMaxKey |-> setMinMaxKey]
              ELSE TrackMinMax(PrimaryKey)
        tempMap == IF pairs = <<>> THEN <<>> ELSE RowOf(Tail(pairs), <<>>)
        item == [PK |-> PrimaryKey, Row |-> tempMap]
        n == Len(hist.read)
    IN  /\ main.pc = "decode"
        /\ IF r.err
           THEN /\ main' = [main EXCEPT !.pc = "exit"]
                /\ UNCHANGED <<tr, upserted, currentMapSize, minKey, maxKey,
                               setMinMaxKey, hist>>
           ELSE /\ tr' = UpsertTree(tr, item).tr
                /\ upserted' = {x \in upserted : x.PK # PrimaryKey} \cup {item}
                /\ minKey' = mm.minKey
                /\ maxKey' = mm.maxKey
                /\ setMinMaxKey' = mm.setMinMaxKey
                /\ currentMapSize' = IF main.writeToDisk
                                     THEN currentMapSize + main.lineSize
                                     ELSE currentMapSize
                /\ main' = [main EXCEPT !.pc = "scan"]
                /\ hist' = [hist EXCEPT
                              !.upserts = Append(@, [n |-> n, PK |-> PrimaryKey]),
                              !.batch = @ \cup {n},
                              !.batchBytes = @ + Line(main.line).len]
        /\ UNCHANGED <<it, yielded, ret, budget, fl, disk, writer, file>>

\* writeMapToFile up to the first loop: the lower segment is created under
\* its placeholder name (fails: os.OpenFile returns an error, which is
\* logged and leaves spw nil) and the cursor is opened.
CreateLower(fails) ==
    LET lowerFile == LowerName(minKey)
        c == createNewWriter(lowerFile, disk, fails)
    IN  /\ main.pc = "createLower"
        /\ fl' = [NoFlush EXCEPT !.HalfMemorySize = budget \div 2,
                                 !.lowerFile = lowerFile,
                                 !.spw = c.spw]
        /\ disk' = c.disk
        /\ it' = [stack |-> IterAscend(tr), live |-> TRUE]
        /\ main' = [main EXCEPT !.pc = "lowerLoop"]
        /\ hist' = [hist EXCEPT !.flushed = hist.batch]
        /\ UNCHANGED <<tr, yielded, ret, upserted, budget, currentMapSize,
                       minKey, maxKey, setMinMaxKey, writer, file>>

\* One pass of the loop of iteratorWriter(it, spw, HalfMemorySize), which
\* left r.
LowerPass(r) ==
    /\ IF r.panic
       THEN /\ main' = [main EXCEPT !.pc = "panic"]
            /\ UNCHANGED <<it, fl, disk>>
       ELSE /\ it' = [it EXCEPT !.stack = r.stack]
            /\ fl' = [fl EXCEPT
                        !.spw = r.spw,
                        !.minSplitMax = IF r.returned THEN r.result ELSE @,
                        !.prevBytes = IF r.wrote THEN fl.spw.BytesWritten
                                      ELSE @,
                        !.exhausted = r.returned /\ ~r.wrote]
            /\ disk' = r.disk
            /\ main' = [main EXCEPT !.pc = IF r.returned THEN "rename"
                                           ELSE "lowerLoop"]
    /\ UNCHANGED <<tr, yielded, ret, upserted, budget, currentMapSize,
                   minKey, maxKey, setMinMaxKey, hist, writer, file>>

LowerStep ==
    /\ main.pc = "lowerLoop"
    /\ LowerPass(iteratorWriter(it.stack, fl.spw, fl.HalfMemorySize, disk))

\* The lower segment gets its final name, and the cursor is asked for the
\* first item of the upper segment: r is what it.Next() returned.
RenameAndNext(finalLower, r) ==
    /\ disk' = renameFile(disk, fl.lowerFile, finalLower)
    /\ it' = [it EXCEPT !.stack = r.stack]
    /\ fl' = [fl EXCEPT !.finalLower = finalLower,
                        !.item = r.item,
                        !.maxSplitMin = IF r.ok THEN r.item.PK ELSE @]
    /\ main' = [main EXCEPT !.pc = IF r.ok THEN "createUpper" ELSE "reset"]
    /\ hist' = [hist EXCEPT !.overwritten = @ \/ finalLower \in DOMAIN disk]
    /\ UNCHANGED <<tr, yielded, ret, upserted, budget, currentMapSize,
                   minKey, maxKey, setMinMaxKey, writer, file>>

RenameLower ==
    /\ main.pc = "rename"
    /\ RenameAndNext(SegmentName(minKey, fl.minSplitMax), IterNext(it.stack))

\* The upper segment was created under upperFile, which left c, and the
\* item in hand is written to it; WriteItem on the nil writer panics.
WriteFirstUpper(upperFile, c) ==
    /\ IF c.spw.nil
       THEN /\ fl' = [fl EXCEPT !.upperFile = upperFile, !.spw = c.spw]
            /\ disk' = c.disk
            /\ main' = [main EXCEPT !.pc = "panic"]
       ELSE /\ \E cl \in {CloseOnError(WriteItem(c.spw, fl.item), c.disk)} :
                /\ fl' = [fl EXCEPT !.upperFile = upperFile, !.spw = cl.w,
                                    !.upper = TRUE]
                /\ disk' = cl.disk
            /\ main' = [main EXCEPT !.pc = "upperLoop"]
    /\ hist' = [hist EXCEPT !.overwritten =
                    @ \/ (~c.spw.nil /\ upperFile \in DOMAIN disk)]
    /\ UNCHANGED <<tr, it, yielded, ret, upserted, budget, currentMapSize,
                   minKey, maxKey, setMinMaxKey, writer, file>>

\* The upper segment is created (fails as in CreateLower).
CreateUpper(fails) ==
    /\ main.pc = "createUpper"
    /\ WriteFirstUpper(SegmentName(fl.maxSplitMin, maxKey),
                       createNewWriter(SegmentName(fl.maxSplitMin, maxKey),
                                       disk, fails))

\* One pass of the loop of iteratorWriter(it, spw, 0), which left r.
UpperPass(r) ==
    /\ IF r.panic
       THEN /\ main' = [main EXCEPT !.pc = "panic"]
            /\ UNCHANGED <<it, fl, disk>>
       ELSE /\ it' = [it EXCEPT !.stack = r.stack]
            /\ fl' = [fl EXCEPT !.spw = r.spw]
            /\ disk' = r.disk
            /\ main' = [main EXCEPT !.pc = IF r.returned THEN "reset"
                                           ELSE "upperLoop"]
    /\ UNCHANGED <<tr, yielded, ret, upserted, budget, currentMapSize,
                   minKey, maxKey, setMinMaxKey, hist, writer, file>>

UpperStep ==
    /\ main.pc = "upperLoop"
    /\ UpperPass(iteratorWriter(it.stack, fl.spw, 0, disk))

\* The return of a flush that leaves the min/max flag as it was
ResetAndReturnKeepingFlag ==
    /\ main.pc = "reset"
    /\ tr' = New(DriverDegree)
    /\ currentMapSize' = 0
    /\ minKey' = 0
    /\ maxKey' = 0
    /\ upserted' = {}
    /\ it' = NoIter
    /\ fl' = NoFlush
    /\ main' = [main EXCEPT !.pc = IF main.caller = "scan" THEN "decode"
                                   ELSE "done"]
    /\ hist' = [hist EXCEPT !.batch = {}, !.batchBytes = 0,
                            !.flushedAfterScan = TRUE]
    /\ UNCHANGED <<yielded, ret, budget, disk, setMinMaxKey, writer, file>>

\* resetInMemoryState and the return of writeMapToFile to its call site.
ResetAndReturn ==
    /\ main.pc = "reset"
    /\ tr' = New(DriverDegree)
    /\ currentMapSize' = 0
    /\ setMinMaxKey' = FALSE
    /\ minKey' = 0
    /\ maxKey' = 0
    /\ upserted' = {}
    /\ it' = NoIter
    /\ fl' = NoFlush
    /\ main' = [main EXCEPT !.pc = IF main.caller = "scan" THEN "decode"
                                   ELSE "done"]
    /\ hist' = [hist EXCEPT !.batch = {}, !.batchBytes = 0,
                            !.flushedAfterScan = TRUE]
    /\ UNCHANGED <<yielded, ret, budget, disk, writer, file>>

IngestNext ==
    \/ \E large \in BOOLEAN : OpenFile(large)
    \/ \E id \in LineIds : ScanLine(id)
    \/ ScanEOF
    \/ ProcessLine
    \/ \E fails \in BOOLEAN : CreateLower(fails)
    \/ LowerStep
    \/ RenameLower
    \/ \E fails \in BOOLEAN : CreateUpper(fails)
    \/ UpperStep
    \/ ResetAndReturn

SpecIngest == IngestInit /\ [][IngestNext]_vars

\* ------------------------------------------------------------------------
\* The Writer specification: a caller of one Writer over a fresh file,
\* and a file that can break under it.  ret holds the last call; calls
\* counts the calls made.
\* ------------------------------------------------------------------------

\* The caller makes at most MaxCalls calls.
MaxCalls == 4

\* The Items handed to WriteItem, by number: {}, {"a": nil}, a field name
\* of 256 bytes, a value json.Marshal rejects, and 65536 fields.
WriterItemIds == 1..5

WriterItem(id) ==
    CASE id = 1 -> [PK |-> 1, Row |-> <<>>]
      [] id = 2 -> [PK |-> 2,
                    Row |-> <<[Key |-> <<97>>, Val |-> [type |-> "nil"]]>>]
      [] id = 3 -> [PK |-> 3,
                    Row |-> <<[Key |-> [i \in 1..256 |-> 97],
                               Val |-> [type |-> "nil"]]>>]
      [] id = 4 -> [PK |-> 4,
                    Row |-> <<[Key |-> <<99>>,
                               Val |-> [type |-> "chan", marshalErr |-> TRUE]]>>]
      [] OTHER -> [PK |-> 5,
                   Row |-> [i \in 1..(MaxUint16 + 1) |->
                              [Key |-> <<i % 256, i \div 256>>,
                               Val |-> [type |-> "nil"]]]]

WriterInit ==
    /\ tr = New(DriverDegree)
    /\ it = NoIter
    /\ yielded = <<>>
    /\ upserted = {}
    /\ NoIngest
    /\ writer = [bw |-> [buf |-> <<>>, err |-> "nil"],
                 BytesWritten |-> 0, Records |-> 0]
    /\ file = [closed |-> FALSE, broken |-> FALSE, data |-> <<>>]
    /\ ret = [op |-> "NewWriter", calls |-> 0]

\* WriteItem(item) returned r.
WriteItemReturned(id, r) ==
    /\ writer' = r.w
    /\ file' = r.f
    /\ ret' = [op |-> "WriteItem", calls |-> ret.calls + 1, item |-> id,
               err |-> r.err, path |-> r.path, pool |-> r.pool]
    /\ UNCHANGED <<tr, it, yielded, upserted, driverVars>>

WriteItemCall(id) ==
    /\ ret.calls < MaxCalls
    /\ WriteItemReturned(id,
           WriteItemBytes(writer, file,
               encodeItemInto(<<>>, WireItem(WriterItem(id)),
                              Positions(WriterItem(id).Row))))

\* Flush() returned r.
FlushReturned(r) ==
    /\ writer' = [writer EXCEPT !.bw = r.bw]
    /\ file' = r.f
    /\ ret' = [op |-> "Flush", calls |-> ret.calls + 1, err |-> r.err]
    /\ UNCHANGED <<tr, it, yielded, upserted, driverVars>>

FlushCall ==
    /\ ret.calls < MaxCalls
    /\ FlushReturned(WriterFlush(writer, file))

\* Close() returned r; flushErr is what its flush returned and closeErr
\* what closing the file returned.
CloseReturned(r, flushErr, closeErr) ==
    /\ writer' = [writer EXCEPT !.bw = r.bw]
    /\ file' = r.f
    /\ ret' = [op |-> "Close", calls |-> ret.calls + 1, err |-> r.err,
               flushErr |-> flushErr, closeErr |-> closeErr]
    /\ UNCHANGED <<tr, it, yielded, upserted, driverVars>>

CloseCall(fails) ==
    /\ ret.calls < MaxCalls
    /\ CloseReturned(WriterClose(writer, file, fails),
                     bufioFlush(writer.bw, file).err,
                     fileClose(file, fails).err)

\* The device under the file fails from now on.
BreakFile ==
    /\ ~file.broken
    /\ file' = [file EXCEPT !.broken = TRUE]
    /\ UNCHANGED <<tr, it, yielded, ret, upserted, driverVars, writer>>

WriterNext ==
    \/ \E id \in WriterItemIds : WriteItemCall(id)
    \/ FlushCall
    \/ \E fails \in BOOLEAN : CloseCall(fails)
    \/ BreakFile

SpecWriter == WriterInit /\ [][WriterNext]_vars

\* ------------------------------------------------------------------------
\* Helpers of the properties
\* ------------------------------------------------------------------------

StrictlyIncreasing(s) == \A i \in 1..(Len(s) - 1) : s[i] < s[i + 1]

PKsOf(items) == [i \in 1..Len(items) |-> items[i].PK]

SeqElems(s) == {s[i] : i \in 1..Len(s)}

UpsertedPKs == {x.PK : x \in upserted}

RECURSIVE Height(_)
Height(n) == IF n.leaf THEN 1 ELSE 1 + Height(n.children[1])

\* Every node below n (n excluded) holds between t-1 and 2t-1 items.
RECURSIVE DescendantsWithinBounds(_, _)
DescendantsWithinBounds(n, t) ==
    \A c \in 1..Len(n.children) :
        /\ Len(n.children[c].items) >= t - 1
        /\ Len(n.children[c].items) <= 2 * t - 1
        /\ DescendantsWithinBounds(n.children[c], t)

\* Upserting the PKs of pks, in order and with row "r1", into b.
RECURSIVE UpsertAll(_, _)
UpsertAll(b, pks) ==
    IF pks = <<>> THEN b
    ELSE UpsertAll(UpsertTree(b, [PK |-> Head(pks), Row |-> "r1"]).tr, Tail(pks))

\* The tree of the scenario: t = 2 and upserts of 10,20,5,6,12,30,7,17.
ScenarioTree == UpsertAll(New(2), <<10, 20, 5, 6, 12, 30, 7, 17>>)

\* ------------------------------------------------------------------------
\* Properties of the Index (specification SpecIndex)
\* ------------------------------------------------------------------------

\* C1: after any sequence of Upserts a fresh IterAscend cursor yields PKs in
\* strictly increasing order (so none twice), and when Next reports
\* exhaustion it has yielded Len() items, Len() being the number of distinct
\* PKs ever upserted.
C1_IterAscendOrderedAndComplete ==
    /\ StrictlyIncreasing(yielded)
    /\ (ret.op = "Next" /\ ~ret.ok) =>
          /\ Len(yielded) = TreeLen(tr)
          /\ TreeLen(tr) = Cardinality(UpsertedPKs)

\* A cursor over a three-level tree of eight items has been run to exhaustion.
C1_Witness ==
    /\ ret.op = "Next" /\ ~ret.ok
    /\ Len(yielded) = 8
    /\ Height(tr.root) = 3

\* C2: an Upsert of a PK already present returns (previous Item, true) and
\* leaves Len() unchanged; an Upsert of a PK not present returns (zero Item,
\* false) and increases Len() by exactly 1.
C2_UpsertReplaceSemantics ==
    [][ret'.op = "Upsert" =>
         LET pk == ret'.item.PK
         IN  IF pk \in UpsertedPKs
             THEN /\ ret'.replaced
                  /\ ret'.old \in upserted
                  /\ ret'.old.PK = pk
                  /\ TreeLen(tr') = TreeLen(tr)
             ELSE /\ ~ret'.replaced
                  /\ ret'.old = ZeroItem
                  /\ TreeLen(tr') = TreeLen(tr) + 1]_vars

\* An Upsert has replaced, with a different row, an item held in an
\* internal node.
C2_Witness ==
    /\ ret.op = "Upsert" /\ ret.replaced
    /\ ret.old.Row # ret.item.Row
    /\ ~tr.root.leaf
    /\ \E c \in 1..Len(tr.root.children) :
          /\ ~tr.root.children[c].leaf
          /\ ret.item \in SeqElems(tr.root.children[c].items)

\* C4: every node other than the root holds between t-1 and 2t-1 items and
\* the root holds at most 2t-1.
C4_NodeOccupancy ==
    /\ Len(tr.root.items) <= 2 * tr.t - 1
    /\ DescendantsWithinBounds(tr.root, tr.t)

\* A three-level tree: it has internal nodes that are not the root.
C4_Witness == Height(tr.root) = 3 /\ ret.op = "Upsert"

PKField(dst) == SubSeq(dst, 1, 4)

\* C10: the primary-key field of the encoded record determines item.PK for
\* every PK of the int64 range, that is, two Items with different PKs never
\* encode to the same primary-key bytes (which is what a Decode with
\* Decode(Encode(item)).PK = item.PK needs).
C10_PKFieldDeterminesPK ==
    (/\ ret.op = "Encode"
     /\ ret.prev.set
     /\ ~ret.err
     /\ ~ret.prev.err
     /\ ret.item.PK # ret.prev.item.PK)
        => PKField(ret.dst) # PKField(ret.prev.dst)

\* ------------------------------------------------------------------------
\* Properties of the ingestion (specification SpecIngest)
\* ------------------------------------------------------------------------

\* The PKs of the records a file holds.
FilePKs(f) == {disk[f][i].PK : i \in 1..Len(disk[f])}

\* C3: when a flush has produced a lower and an upper segment, the largest
\* PK written to the lower segment is less than the smallest PK written to
\* the upper segment, and the PKs written across both segments are the PKs
\* the Index held when the flush began, none lost and none written twice.
C3_FlushPartitionsIndex ==
    (main.pc = "reset" /\ fl.upper) =>
        /\ \A a \in FilePKs(fl.finalLower), b \in FilePKs(fl.upperFile) : a < b
        /\ FilePKs(fl.finalLower) \cup FilePKs(fl.upperFile) = UpsertedPKs
        /\ Len(disk[fl.finalLower]) + Len(disk[fl.upperFile])
              = Cardinality(UpsertedPKs)

\* C6: when writing to the lower segment stops, the lower writer's
\* BytesWritten is at least B/2 or the cursor was exhausted and the lower
\* segment holds the entire Index; and when the threshold stopped the
\* writing, BytesWritten was below B/2 before the last record was written.
C6_LowerWriterStopsAtHalf ==
    main.pc = "rename" =>
        /\ \/ fl.spw.BytesWritten >= budget \div 2
           \/ fl.exhausted /\ SeqElems(disk[fl.lowerFile]) = upserted
        /\ ~fl.exhausted => fl.prevBytes < budget \div 2

\* C7: at the end of an ingestion pass, whatever the input's size and the
\* budget, the Index is empty and every record that was upserted has been
\* written to some segment file.
C7_FinalFlushDrainsIndex ==
    main.pc = "done" =>
        /\ IsEmpty(tr)
        /\ \A i \in 1..Len(hist.upserts) :
              \E f \in DOMAIN disk : hist.upserts[i].PK \in FilePKs(f)

\* The line is an object whose first field ToInt cannot coerce.
KeyNotCoercible(line) ==
    /\ line.ok
    /\ line.pairs # <<>>
    /\ ToInt(line.pairs[1].Val).err

\* C8: a line whose raw length plus the running size counter exceeds the
\* budget is upserted only after a flush has run to completion: the Index
\* is empty then, the line is not among the lines that flush wrote, and
\* its record is the first of the next batch.
C8_FlushBeforeTriggeringLine ==
    [][(/\ main.pc = "decode"
        /\ main'.pc = "scan"
        /\ Line(main.line).len + hist.sizeAtScan > budget)
          => /\ hist.flushedAfterScan
             /\ IsEmpty(tr)
             /\ Len(hist.read) \notin hist.flushed
             /\ hist'.batch = {Len(hist.read)}
             /\ TreeLen(tr') = 1]_vars

\* The third line made the budget test flush the first two into a lower
\* and an upper segment, and has been upserted since.
C8_Witness ==
    /\ main.pc = "scan"
    /\ hist.flushedAfterScan
    /\ hist.flushed = {1, 2}
    /\ hist.batch = {3}
    /\ TreeLen(tr) = 1
    /\ Cardinality(DOMAIN disk) = 2
    /\ \A f \in DOMAIN disk : Len(disk[f]) = 1

\* C9: a record whose first field cannot be coerced to an integer aborts
\* the pass: it is never upserted under any key and no line after it is
\* read.
C9_NonIntegerKeyAborts ==
    \A n \in 1..Len(hist.read) :
        KeyNotCoercible(Line(hist.read[n])) =>
            /\ \A i \in 1..Len(hist.upserts) : hist.upserts[i].n # n
            /\ n = Len(hist.read)

\* ------------------------------------------------------------------------
\* Properties of the Writer (specification SpecWriter)
\* ------------------------------------------------------------------------

\* C11: a WriteItem that fails with an encode error (too many fields, a
\* field name longer than 255 bytes, a value whose fallback serialization
\* fails) hands no byte to the bufio.Writer or the file, leaves
\* BytesWritten and Records as they were, and leaves the bytes of the
\* records written before untouched.
C11_EncodeErrorWritesNothing ==
    [][(/\ ret'.op = "WriteItem"
        /\ ret'.calls = ret.calls + 1
        /\ ret'.item \in {3, 4, 5})
          => /\ ret'.err = "encode"
             /\ writer' = writer
             /\ file' = file]_vars

\* A WriteItem of the Item with 65536 fields has failed after one record
\* went to the file and another into the buffer.
C11_Witness ==
    /\ ret.op = "WriteItem"
    /\ ret.item = 5
    /\ ret.err = "encode"
    /\ writer.Records = 2
    /\ writer.bw.buf # <<>>
    /\ file.data # <<>>

\* C14: Close always closes the file: when its flush fails it returns the
\* flush error and the file is closed all the same, and when the flush
\* succeeds it returns what closing the file returned.
C14_CloseAlwaysClosesFile ==
    ret.op = "Close" =>
        /\ file.closed
        /\ ret.flushErr # "nil" => ret.err = ret.flushErr
        /\ ret.flushErr = "nil" => ret.err = ret.closeErr

\* A Close whose flush failed on the broken file with bytes in the buffer.
C14_Witness ==
    /\ ret.op = "Close"
    /\ ret.flushErr = "write"
    /\ ret.err = "write"
    /\ writer.bw.buf # <<>>
    /\ file.closed

\* C15: every WriteItem takes one scratch buffer from the pool and puts it
\* back once before it returns, on the success path and on the three
\* failure paths.
C15_ScratchBufferReturnedOnce ==
    ret.op = "WriteItem" =>
        /\ ret.pool = <<"Get", "Put">>
        /\ ret.path = "ok" <=> ret.err = "nil"
        /\ ret.path = "encode" <=> ret.err = "encode"

\* A WriteItem has failed writing the payload after its length prefix went
\* into the buffer.
C15_Witness ==
    /\ ret.op = "WriteItem"
    /\ ret.path = "payload"
    /\ ret.err = "write"

\* The file f, if it holds records, is named by the smallest and the
\* largest PK among them.
SegmentNamedByRange(f) ==
    (f \in DOMAIN disk /\ disk[f] # <<>>) =>
        /\ f.a \in FilePKs(f)
        /\ f.b \in FilePKs(f)
        /\ \A pk \in FilePKs(f) : f.a <= pk /\ pk <= f.b

\* C12: every finalized segment of a flush is named {a}_{b}.spdb with a
\* the smallest and b the largest PK of the records written into it: the
\* lower segment, whether the threshold or the exhausted cursor ended it,
\* and the upper segment.
C12_SegmentsNamedByRange ==
    main.pc = "reset" =>
        /\ SegmentNamedByRange(fl.finalLower)
        /\ fl.upper => SegmentNamedByRange(fl.upperFile)

\* The PKs ingested in the pass.
IngestedPKs == {hist.upserts[i].PK : i \in 1..Len(hist.upserts)}

\* C13: at the end of a pass that flushed, the key ranges in the names of
\* the segments are pairwise non-overlapping, every ingested PK lies in
\* the range of exactly one segment, which holds its record, and no
\* segment was overwritten by a later one of the same name.
C13_SegmentRangesPartitionPKs ==
    (main.pc = "done" /\ DOMAIN disk # {}) =>
        /\ \A f, g \in DOMAIN disk : f # g => (f.b < g.a \/ g.b < f.a)
        /\ \A pk \in IngestedPKs :
              /\ Cardinality({f \in DOMAIN disk : f.a <= pk /\ pk <= f.b}) = 1
              /\ \A f \in DOMAIN disk :
                    (f.a <= pk /\ pk <= f.b) => pk \in FilePKs(f)
        /\ ~hist.overwritten

\* C16: a segment file that cannot be created does not crash the flush:
\* the error is logged, the flush completes and resets the in-memory
\* state, and ingestion resumes.  In the model the only crash is the
\* dereference of the nil writer createNewWriter leaves.
C16_CreateFailureDoesNotCrash == main.pc # "panic"

\* ------------------------------------------------------------------------
\* Further properties of the Index (specification SpecIndex)
\* ------------------------------------------------------------------------

\* The node of the tree under n that holds pk (n itself included); the
\* tree holds pk.
RECURSIVE NodeOf(_, _)
NodeOf(n, pk) ==
    IF \E i \in 1..Len(n.items) : n.items[i].PK = pk THEN n
    ELSE NodeOf(n.children[Search(n.items, pk) + 1], pk)

\* C17: Get(pk) returns the Row of the most recent Upsert of pk and true if
\* pk was ever upserted, and (nil, false) if not, wherever in the tree the
\* key is stored.
C17_GetReturnsLatestRow ==
    ret.op = "Get" =>
        IF ret.pk \in UpsertedPKs
        THEN ret.found /\ [PK |-> ret.pk, Row |-> ret.row] \in upserted
        ELSE ~ret.found /\ ret.row = NilRow

\* Get has found, in an internal node below the root, a key whose row was
\* replaced.
C17_Witness ==
    /\ ret.op = "Get"
    /\ ret.found
    /\ ret.row = "r2"
    /\ Height(tr.root) = 3
    /\ NodeOf(tr.root, ret.pk) # tr.root
    /\ ~NodeOf(tr.root, ret.pk).leaf

\* The PKs of the items in the subtree of n.
RECURSIVE SubtreePKs(_)
SubtreePKs(n) ==
    {n.items[i].PK : i \in 1..Len(n.items)} \cup
    UNION {SubtreePKs(n.children[c]) : c \in 1..Len(n.children)}

\* The ordering of the subtree of n.
RECURSIVE Ordered(_)
Ordered(n) ==
    /\ StrictlyIncreasing(PKsOf(n.items))
    /\ ~n.leaf =>
          /\ Len(n.children) = Len(n.items) + 1
          /\ \A i \in 1..Len(n.items) :
                /\ \A pk \in SubtreePKs(n.children[i]) : pk < n.items[i].PK
                /\ \A pk \in SubtreePKs(n.children[i + 1]) : pk > n.items[i].PK
          /\ \A c \in 1..Len(n.children) : Ordered(n.children[c])

\* C19: the items of every node are sorted strictly ascending by PK, and
\* for every internal node and every i the PKs under children[i] are less
\* than items[i].PK and the PKs under children[i+1] greater.
C19_SearchTreeOrder == Ordered(tr.root)

\* An Upsert has replaced a row in a three-level tree of eight items.
C19_Witness ==
    /\ ret.op = "Upsert"
    /\ ret.replaced
    /\ TreeLen(tr) = 8
    /\ Height(tr.root) = 3

\* The depths of the leaves under n, n being d levels below the root.
RECURSIVE LeafDepths(_, _)
LeafDepths(n, d) ==
    IF n.leaf THEN {d}
    ELSE UNION {LeafDepths(n.children[c], d + 1) : c \in 1..Len(n.children)}

\* C20: all leaves are at the same depth, and the height of the tree
\* changes in an Upsert that finds the root full and in no other step, and
\* then grows by exactly one.
C20_UniformDepthAndGrowth ==
    [][/\ Cardinality(LeafDepths(tr'.root, 0)) = 1
       /\ IF ret'.op = "Upsert" /\ Len(tr.root.items) = 2 * tr.t - 1
          THEN LeafDepths(tr'.root, 0) = {d + 1 : d \in LeafDepths(tr.root, 0)}
          ELSE LeafDepths(tr'.root, 0) = LeafDepths(tr.root, 0)]_vars

\* The root was split a second time: the tree has three levels and the
\* last call was the Upsert that made it so.
C20_Witness ==
    /\ ret.op = "Upsert"
    /\ ~ret.replaced
    /\ LeafDepths(tr.root, 0) = {2}
    /\ Len(tr.root.items) = 1

\* C18: when a flush returns, after a lower segment only or after a lower
\* and an upper segment, the driver holds a fresh empty Index, the size
\* counter is 0 and the min/max flag is false; and whenever the flag is
\* set, minKey and maxKey are PKs of records in the Index, which holds
\* only records ingested since the last flush returned.
C18_FlushReturnsFreshState ==
    /\ [][(main.pc = "reset" /\ main'.pc # "reset")
            => /\ IsEmpty(tr')
               /\ TreeLen(tr') = 0
               /\ tr' = New(DriverDegree)
               /\ currentMapSize' = 0
               /\ ~setMinMaxKey']_vars
    /\ [](setMinMaxKey => {minKey, maxKey} \subseteq SubtreePKs(tr.root))

\* A flush that produced a lower and an upper segment has returned to the
\* scanner loop, and the one record ingested since, whose PK is larger than
\* every PK flushed, is both the minimum and the maximum.
C18_Witness ==
    /\ main.pc = "scan"
    /\ hist.flushedAfterScan
    /\ Cardinality(DOMAIN disk) = 2
    /\ TreeLen(tr) = 1
    /\ setMinMaxKey
    /\ minKey = 3
    /\ maxKey = 3
    /\ \A f \in DOMAIN disk : \A k \in FilePKs(f) : k < 3

\* A flush that produced only a lower segment has returned at the end of
\* the input.
C18_WitnessLowerOnly ==
    /\ main.pc = "done"
    /\ hist.flushedAfterScan
    /\ Cardinality(DOMAIN disk) = 1
    /\ IsEmpty(tr)
    /\ currentMapSize = 0
    /\ ~setMinMaxKey

\* Every internal node of the subtree of n has one child more than it has
\* items, and every leaf has no children.
RECURSIVE ChildrenMatchItems(_)
ChildrenMatchItems(n) ==
    IF n.leaf
    THEN n.children = <<>>
    ELSE /\ Len(n.children) = Len(n.items) + 1
         /\ \A c \in 1..Len(n.children) : ChildrenMatchItems(n.children[c])

\* C21: after any sequence of Upserts every internal node holding k items
\* has exactly k+1 children, each of them a node, and every leaf has no
\* children.
C21_ChildrenOneMoreThanItems == ChildrenMatchItems(tr.root)

\* An Upsert has split the full internal root of an Index of degree 2: the
\* new root has one item and two internal children, which share the
\* children of the old root.
C21_Witness ==
    /\ ret.op = "Upsert"
    /\ ~ret.replaced
    /\ tr.t = 2
    /\ Len(tr.root.items) = 1
    /\ Len(tr.root.children) = 2
    /\ \A c \in 1..2 : /\ ~tr.root.children[c].leaf
                        /\ Len(tr.root.children[c].children) >= 2

\* No node of the subtree of n holds more than 2t-1 items.
RECURSIVE NoNodeOverfull(_, _)
NoNodeOverfull(n, t) ==
    /\ Len(n.items) <= 2 * t - 1
    /\ \A c \in 1..Len(n.children) : NoNodeOverfull(n.children[c], t)

\* C22: during any Upsert insertNonFull is only entered on a node holding
\* fewer than 2t-1 items, the full root and every full target child having
\* been split first, and no node ever holds more than 2t-1 items.
C22_InsertOnlyIntoNonFull ==
    /\ ret.op = "Upsert" => ~ret.enteredFull
    /\ NoNodeOverfull(tr.root, tr.t)

\* An Upsert into a two-level Index has split the full leaf it was about
\* to descend into and inserted into one of the halves.
C22_Witness ==
    /\ ret.op = "Upsert"
    /\ ~ret.replaced
    /\ ret.splits = 1
    /\ Height(tr.root) = 2
    /\ Len(tr.root.children) = 3

\* The number of items with PK pk in the subtree of n.
RECURSIVE CountPK(_, _)
RECURSIVE SumCountPK(_, _, _)
SumCountPK(children, pk, c) ==
    IF c > Len(children) THEN 0
    ELSE CountPK(children[c], pk) + SumCountPK(children, pk, c + 1)

CountPK(n, pk) ==
    Cardinality({i \in 1..Len(n.items) : n.items[i].PK = pk})
        + SumCountPK(n.children, pk, 1)

\* C23: when an Upsert splits a full node whose median has the PK of the
\* item being upserted, the promoted median is replaced in the parent and
\* (old, true) is returned with old the item stored before; nothing is
\* inserted below (the two halves keep t-1 items each), Len() is unchanged
\* and the tree holds the PK exactly once, with the new Row.
C23_PromotedMedianReplaced ==
    [][(ret'.op = "Upsert" /\ ret'.promotedSame) =>
          LET pk == ret'.item.PK
              parent == NodeOf(tr'.root, pk)
              i == Search(parent.items, pk)
          IN  /\ ret'.replaced
              /\ ret'.old \in upserted
              /\ ret'.old.PK = pk
              /\ ~parent.leaf
              /\ parent.items[i + 1] = ret'.item
              /\ Len(parent.children[i + 1].items) = tr.t - 1
              /\ Len(parent.children[i + 2].items) = tr.t - 1
              /\ CountPK(tr'.root, pk) = 1
              /\ TreeLen(tr') = TreeLen(tr)
              /\ GetFrom(tr'.root, pk).row = ret'.item.Row]_vars

\* An Upsert with a new Row has split a full leaf below the root whose
\* median had the PK of the item.
C23_Witness ==
    /\ ret.op = "Upsert"
    /\ ret.promotedSame
    /\ ret.replaced
    /\ ret.old.Row = "r1"
    /\ ret.item.Row = "r2"
    /\ Len(tr.root.items) >= 2

\* The length of the encoded record of the Item numbered id.
EncodedLen(id) ==
    Len(encodeItemInto(<<>>, WireItem(WriterItem(id)),
                       Positions(WriterItem(id).Row)).dst)

\* C24: a new Writer has both counters at 0; every successful WriteItem
\* adds 4 plus the length of the encoded record to BytesWritten and 1 to
\* Records; a failed WriteItem and every other call change neither.  So
\* BytesWritten is the sum of 4 + length over the successful calls and
\* Records their number.
C24_CountersSumSuccessfulWrites ==
    /\ ret.op = "NewWriter" => writer.BytesWritten = 0 /\ writer.Records = 0
    /\ [][IF ret'.op = "WriteItem" /\ ret'.calls = ret.calls + 1
                                  /\ ret'.err = "nil"
          THEN /\ writer'.BytesWritten =
                     writer.BytesWritten + 4 + EncodedLen(ret'.item)
               /\ writer'.Records = writer.Records + 1
          ELSE /\ writer'.BytesWritten = writer.BytesWritten
               /\ writer'.Records = writer.Records]_vars

\* After two records were written, a WriteItem has failed on the broken
\* file and left the counters at the two records.
C24_Witness ==
    /\ ret.op = "WriteItem"
    /\ ret.err = "write"
    /\ writer.Records = 2
    /\ writer.BytesWritten = 8 + EncodedLen(1) + EncodedLen(2)

\* C25: a cursor is one-shot: every Next called after one that returned
\* ok = false returns the zero Item and false; the first Next of a cursor
\* created on an empty Index returns ok = false; and over a tree of n items
\* Next returns ok = true exactly n times.
C25_CursorOneShot ==
    /\ [][(ret.op = "IterAscend" /\ IsEmpty(tr) /\ ret'.op = "Next")
            => ~ret'.ok /\ ret'.item = ZeroItem]_vars
    /\ [](/\ (ret.op = "Next" /\ ret.after > 0)
               => ~ret.ok /\ ret.item = ZeroItem
          /\ Len(yielded) <= TreeLen(tr)
          /\ (ret.op = "Next" /\ ~ret.ok) => Len(yielded) = TreeLen(tr))

\* Next was called twice more on a cursor that had run through a tree of
\* five items and two levels.
C25_Witness ==
    /\ ret.op = "Next"
    /\ ret.after = MaxAfter
    /\ ~ret.ok
    /\ Len(yielded) = 5
    /\ Height(tr.root) = 2

C26_WitnessHi ==
    /\ tr = ScenarioTree
    /\ ret.op = "AscendRange"
    /\ ret.stop = 0
    /\ ret.hi = 12
    /\ ret.examined[Len(ret.examined)] = 12

\* ------------------------------------------------------------------------
\* Further properties of the record codec (specification SpecCodec)
\* ------------------------------------------------------------------------

\* v is an unsigned integer above the largest int64.
ExceedsMaxInt64(v) ==
    v.type \in UncheckedUnsigned \cup {"uint64"} /\ v.u[4] > 32767

\* C27: encoding a field whose value is an unsigned integer of any width
\* above the largest signed 64-bit value fails with an encode error.
C27_UnsignedOverflowIsError ==
    (/\ ret.op = "Encode"
     /\ \E i \in 1..Len(ret.item.Row) : ExceedsMaxInt64(ret.item.Row[i].Val))
        => ret.err

\* ------------------------------------------------------------------------
\* Further properties of the ingestion (specification SpecIngest)
\* ------------------------------------------------------------------------

\* C28: a flush is started only when the Index is non-empty, and outside a
\* flush no segment file holds zero records.
C28_FlushOnlyWhenNonEmpty ==
    /\ main.pc = "createLower" => TreeLen(tr) > 0
    /\ main.pc \in {"scan", "decode", "done"} =>
           \A f \in DOMAIN disk : Len(disk[f]) > 0

\* C29: whenever the Index is non-empty the min/max flag is set and minKey
\* and maxKey are the smallest and the largest PK in the Index.
C29_MinMaxTrackIndex ==
    TreeLen(tr) > 0 =>
        /\ setMinMaxKey
        /\ minKey \in SubtreePKs(tr.root)
        /\ maxKey \in SubtreePKs(tr.root)
        /\ \A pk \in SubtreePKs(tr.root) : minKey <= pk /\ pk <= maxKey

\* The upserts of the current batch with primary key pk, as positions in
\* hist.upserts.
BatchUpsertsOf(pk) ==
    {j \in 1..Len(hist.upserts) :
        hist.upserts[j].n \in hist.batch /\ hist.upserts[j].PK = pk}

\* The Row of the line read as the n-th: its pairs after the first.
RowOfLine(n) ==
    LET pairs == Line(hist.read[n]).pairs
    IN  IF pairs = <<>> THEN <<>> ELSE RowOf(Tail(pairs), <<>>)

\* The segments the flush in progress has written.
FlushSegments ==
    {f \in DOMAIN disk :
        f = fl.finalLower \/ (fl.upper /\ f = fl.upperFile)}

\* The records with primary key pk in the segments of the flush, as pairs
\* of segment and position.
FlushedRecordsOf(pk) ==
    {<<f, i>> \in FlushSegments \X (1..MaxLines) :
        i <= Len(disk[f]) /\ disk[f][i].PK = pk}

\* C30: when a flush is about to return, every PK that occurred in several
\* records of the batch has exactly one record in the segments of the
\* flush, with the Row of its last occurrence (the first field excluded),
\* and the size counter is the sum of the raw lengths of all the lines of
\* the batch.
C30_DuplicatePKLastRowWins ==
    main.pc = "reset" =>
        /\ currentMapSize = hist.batchBytes
        /\ \A j \in 1..Len(hist.upserts) :
              LET pk == hist.upserts[j].PK
                  last == CHOOSE k \in BatchUpsertsOf(pk) :
                              \A m \in BatchUpsertsOf(pk) : m <= k
              IN  Cardinality(BatchUpsertsOf(pk)) > 1 =>
                      /\ Cardinality(FlushedRecordsOf(pk)) = 1
                      /\ \A r \in FlushedRecordsOf(pk) :
                            disk[r[1]][r[2]].Row = RowOfLine(hist.upserts[last].n)

\* C31: in every flush no WriteItem or Close is issued on a segment writer
\* after it has been closed, and when iteratorWriter has returned the
\* writer it was given has been closed exactly once.
C31_WriterClosedExactlyOnce ==
    ~fl.spw.nil =>
        /\ ~fl.spw.late
        /\ fl.spw.closes <= 1
        /\ main.pc \in {"rename", "createUpper", "reset"} => fl.spw.closes = 1

\* Every line read so far has a raw length of at most the memory budget.
LinesWithinBudget ==
    \A i \in 1..Len(hist.read) : Line(hist.read[i]).len <= budget

\* C32: in an ingestion pass whose lines are each at most as long as the
\* memory budget, the running size counter never exceeds the budget and
\* equals the sum of the raw lengths of the lines upserted since the last
\* flush.
C32_SizeCounterWithinBudget ==
    LinesWithinBudget =>
        /\ currentMapSize <= budget
        /\ currentMapSize = hist.batchBytes

====
